---- MODULE Spec2Model ----
(***************************************************************************)
(* Image management of the admin console: the ImageManagementModal, the    *)
(* ImageGallery and the environment-aware ImageUpload, as state machines.  *)
(*                                                                         *)
(* React is modelled as follows.  Component state lives in a record per    *)
(* component (modal, gallery, upload).  An event handler, or the part of   *)
(* an async handler between two awaits, is one atomic action; the state    *)
(* updates it makes are applied together and followed by one render.  A    *)
(* closure created by a render keeps the props and state of that render:   *)
(* an in-flight handler carries the values it captured.  A component that  *)
(* is no longer rendered loses its state, and a state update made by a     *)
(* handler of an unmounted instance has no effect (its `live` flag is      *)
(* FALSE).                                                                 *)
(***************************************************************************)
EXTENDS Integers, Sequences, FiniteSets, TLC

\* ------------------------------------------------------------------ bounds
MaxInitImages == 1      \* images of the product when the modal opens (Spec)
MaxGalleryImages == 3   \* images of the product when the modal opens (SpecGallery)
MaxGalleryOps == 2      \* gallery requests in flight at a time, on small galleries
MaxConcurrentImages == 2 \* a gallery opened with more images has one request in flight at a time
MaxRequests == 2        \* gallery requests the user starts in a session (SpecGallery)
MaxLoads == 1           \* reloads of the image list (Retry button) per session
MaxBatch == 3           \* files of one selection or drop
MaxFileObjs == 3        \* File objects handed to the component in a session
MaxBatches == 2         \* selections or drops in a session
MaxRetries == 1         \* clicks on "Retry upload" in a session
MaxFaults == 2          \* failing steps of the upload protocol in a session
MaxInvalid == 1         \* files failing validation in a session
MaxRemovals == 1        \* clicks on the X button of a task in a session
MaxAuthCalls == 3       \* calls of login and logout in a session
MaxOrders == 2          \* orders of the orders list
MaxStatusUpdates == 2   \* status-update requests a page starts in a session

VARIABLES
    modal,          \* ImageManagementModal: [images, isLoading, error, activeTab]
    productImages,  \* the owning page's copy, set through onImagesChange
    gallery,        \* ImageGallery state, GalleryInit while it is not rendered
    ops,            \* gallery handlers suspended at their await
    upload,         \* ImageUpload state, UploadInit while it is not rendered
    batches,        \* handleFiles and retryUpload calls, with the uploadFile they run
    timers,         \* pending self-dismiss timers of successful uploads
    files,          \* the File objects handed to the component so far
    hist,           \* per File: what its latest upload attempt did (history)
    loads,          \* reloads of the list so far
    requests,       \* gallery requests started so far
    faults,         \* steps of the upload protocol that have failed so far
    server,         \* the backend's image list for the product
    parent,         \* who renders ImageUpload, the props it passes, and the number
                    \* of images the product had when the session opened
    isProduction,   \* the deployment-mode flag, read once
    limits,         \* this session's share of the bounds
    auth,           \* AuthProvider: user, isLoading, the route, the calls in flight
    deleted,        \* ids whose handleDelete has run its success path (history)
    basic,          \* the first ImageUpload variant: its uploads and its calls
    orderPages,     \* OrdersPage and OrderDetailPage, and the backend's orders
    last            \* the action taken last: what it was and what it emitted

\* What the image components never write.
fixed == <<parent, isProduction, limits, auth, basic, orderPages>>

vars == <<modal, productImages, gallery, ops, upload, batches, timers, files, hist,
          loads, requests, faults, server, parent, isProduction, limits, auth, deleted,
          basic, orderPages, last>>

\* ------------------------------------------------------------------ values
NoError == "none"
NoImage == 0

\* ProductImage; image_url stands for every field the client never rewrites.
Image(id, main, order) ==
    [id |-> id, is_main |-> main, display_order |-> order, image_url |-> id]

Range(s) == {s[i] : i \in DOMAIN s}
Ids(imgs) == [i \in DOMAIN imgs |-> imgs[i].id]

\* One observable effect of an action: a request sent or a callback invoked.
Effect(kind, id, flag, msg) == [kind |-> kind, id |-> id, flag |-> flag, msg |-> msg]
Req(kind, id) == Effect(kind, id, FALSE, "")
Call(kind, msg) == Effect(kind, 0, FALSE, msg)

\* snap is the list the handler works on; live says whether the component
\* instance it belongs to is still rendered.
\* resp is the response a gallery request got.
NoResponse == [status |-> 0, json |-> FALSE]

Last(op, id, ok, snap, effects) ==
    [op |-> op, id |-> id, ok |-> ok, snap |-> snap, effects |-> effects, live |-> TRUE,
     resp |-> NoResponse]

\* The same for the handler of a gallery request that has returned.
LastOp(op, ok, effects) ==
    [op |-> op.kind, id |-> op.id, ok |-> ok, snap |-> op.images, effects |-> effects,
     live |-> op.live, resp |-> NoResponse]

\* What `last` holds after an action that only changes what is displayed.
Idle == Last("ui", 0, TRUE, <<>>, <<>>)

\* ------------------------------------------------------- request gateway
\* A response as apiRequest sees it: the status and whether the body is JSON.
Responses ==
    { [status |-> 200, json |-> TRUE],
      [status |-> 204, json |-> FALSE],
      [status |-> 401, json |-> TRUE],
      [status |-> 500, json |-> FALSE] }

ResponseOk(resp) == resp.status >= 200 /\ resp.status < 300

\* apiRequest returns the parsed body iff the response is ok and JSON.
ApiResolves(resp) == ResponseOk(resp) /\ resp.json

ApiErrorMessage(resp) ==
    IF ~ResponseOk(resp)
    THEN IF resp.status = 401 THEN "Authentication required" ELSE "HTTP error"
    ELSE "Invalid JSON response from server"

\* ------------------------------------------------------------- the backend
\* The backend is not part of the repository: it is modelled from the
\* endpoint table.  It acts on a request when it answers it with a 2xx.
ServerInit(imgs) == [images |-> imgs, nextId |-> Len(imgs) + 1]

ServerHas(s, id) == \E i \in DOMAIN s.images : s.images[i].id = id

ServerPromote(s, id) ==
    [s EXCEPT !.images =
        [i \in DOMAIN s.images |-> [s.images[i] EXCEPT !.is_main = (s.images[i].id = id)]]]

ServerDelete(s, id) ==
    [s EXCEPT !.images = SelectSeq(s.images, LAMBDA img : img.id # id)]

ServerById(s, id) == CHOOSE img \in Range(s.images) : img.id = id

ServerReorder(s, order) ==
    [s EXCEPT !.images =
        [i \in DOMAIN order |-> [ServerById(s, order[i]) EXCEPT !.display_order = i]]]

\* The backend accepts a request only for images it has.
ServerAccepts(s, op) ==
    CASE op.kind = "promote" -> ServerHas(s, op.id)
      [] op.kind = "delete"  -> ServerHas(s, op.id)
      [] op.kind = "reorder" -> /\ Len(op.images) = Len(s.images)
                                /\ Range(Ids(op.images)) = Range(Ids(s.images))

ServerApply(s, op) ==
    CASE op.kind = "promote" -> ServerPromote(s, op.id)
      [] op.kind = "delete"  -> ServerDelete(s, op.id)
      [] op.kind = "reorder" -> ServerReorder(s, Ids(op.images))

\* The responses the backend can give to a gallery request.
ServerResponses(s, op) ==
    {resp \in Responses : ResponseOk(resp) => ServerAccepts(s, op)}

\* ---------------------------------------------------------------- renders
GalleryInit ==
    [isReordering |-> FALSE, reorderImages |-> <<>>, isDeleting |-> NoImage,
     deleteConfirm |-> NoImage, selectedImage |-> NoImage]

\* uploads is the component's state; hfImages is the `images` of the modal
\* render whose callbacks the memoized handleFiles holds.
UploadInit == [uploads |-> <<>>, hfImages |-> <<>>]

\* The modal renders its content only when it is neither loading nor in error,
\* and then the component of the active tab.
GalleryShown(m) ==
    parent.kind = "modal" /\ ~m.isLoading /\ m.error = NoError /\ m.activeTab = "gallery"

UploadShown(m) ==
    \/ parent.kind = "harness"
    \/ ~m.isLoading /\ m.error = NoError /\ m.activeTab = "upload"

Unmounted(hs) == [i \in DOMAIN hs |-> [hs[i] EXCEPT !.live = FALSE]]

Without(s, i) == [j \in 1..(Len(s) - 1) |-> IF j < i THEN s[j] ELSE s[j + 1]]

\* handleFiles is memoized on [uploads.length, currentImageCount, maxFiles]:
\* it is the one of the first render, or of the last render that changed one.
MemoImages(m, u) ==
    IF \/ ~UploadShown(modal)
       \/ Len(u) # Len(upload.uploads)
       \/ Len(m.images) # Len(modal.images)
    THEN m.images
    ELSE upload.hfImages

\* The render that follows an action.  m, g, o, u, b, t are the modal state,
\* the gallery state, the suspended gallery handlers, the uploads, the upload
\* calls and the timers as the action leaves them.
Render(m, g, o, u, b, t) ==
    /\ modal' = m
    /\ gallery' = IF GalleryShown(m) THEN g ELSE GalleryInit
    /\ ops' = IF GalleryShown(m) THEN o ELSE Unmounted(o)
    /\ upload' = IF UploadShown(m)
                 THEN [uploads |-> u, hfImages |-> MemoImages(m, u)]
                 ELSE UploadInit
    /\ batches' = IF UploadShown(m) THEN b ELSE Unmounted(b)
    /\ timers' = IF UploadShown(m) THEN t ELSE {[x EXCEPT !.live = FALSE] : x \in t}

\* An upload call whose list is rewritten by something else is no longer quiet.
Disturbed(bs) ==
    [i \in DOMAIN bs |-> [bs[i] EXCEPT !.quiet = FALSE]]

RenderGallery(m, g, o) ==
    Render(m, g, o, upload.uploads,
           IF m.images = modal.images THEN batches ELSE Disturbed(batches), timers)

\* ------------------------------------------------- ImageManagementModal
\* handleImagesChange (and the owner's setProductImages behind it).
handleImagesChange(m, updatedImages) == [m EXCEPT !.images = updatedImages]

\* handleError dropping the message.
handleError_Swallow(m, errorMessage) == m

\* handleError
handleError(m, errorMessage) == [m EXCEPT !.error = errorMessage]

\* A tab button is clicked.
setActiveTab(tab) ==
    /\ modal.activeTab # tab
    /\ RenderGallery([modal EXCEPT !.activeTab = tab], gallery, ops)
    /\ last' = Idle
    /\ UNCHANGED <<productImages, files, hist, loads, requests, server, faults, fixed, deleted>>

\* loadImages up to its await: the Retry button of the error panel.
loadImages ==
    /\ modal.error # NoError
    /\ ~modal.isLoading
    /\ loads < MaxLoads
    /\ RenderGallery([modal EXCEPT !.isLoading = TRUE, !.error = NoError], gallery, ops)
    /\ loads' = loads + 1
    /\ last' = Last("loadImages", 0, TRUE, <<>>, <<Req("GET list", 0)>>)
    /\ UNCHANGED <<productImages, files, hist, requests, server, faults, fixed, deleted>>

\* loadImages after its await.
loadImagesReturn ==
    /\ modal.isLoading
    /\ \E resp \in Responses :
        LET imagesData == IF ApiResolves(resp) THEN server.images ELSE <<>>
            m1 == [modal EXCEPT !.images = imagesData,
                                !.isLoading = FALSE,
                                !.error = IF ApiResolves(resp) THEN @
                                          ELSE "Failed to load images"]
        IN  /\ RenderGallery(m1, gallery, ops)
            /\ productImages' = imagesData
            /\ last' = Last("loadImagesReturn", 0, ApiResolves(resp), <<>>,
                            <<Call("onImagesChange", "")>>)
    /\ UNCHANGED <<files, hist, loads, requests, server, faults, fixed, deleted>>

\* ------------------------------------------------------------ ImageGallery
\* handleSetPrimary marking the target without unmarking the others.
SetPrimaryImages_Add(images, imageId) ==
    [i \in DOMAIN images |->
        [images[i] EXCEPT !.is_main = (@ \/ images[i].id = imageId)]]

\* handleDelete dropping the last entry instead of the matching one.
DeleteImages_Last(images, imageId) == SubSeq(images, 1, Len(images) - 1)

\* handleSaveReorder numbering by the 0-based index.
RenumberImages_ZeroBased(reorderImages) ==
    [index \in DOMAIN reorderImages |->
        [reorderImages[index] EXCEPT !.display_order = index - 1]]

\* The list handleSetPrimary hands to onImagesChange.
SetPrimaryImages(images, imageId) ==
    [i \in DOMAIN images |-> [images[i] EXCEPT !.is_main = (images[i].id = imageId)]]

\* The list handleDelete hands to onImagesChange.
DeleteImages(images, imageId) ==
    SelectSeq(images, LAMBDA img : img.id # imageId)

\* The list handleSaveReorder hands to onImagesChange.
RenumberImages(reorderImages) ==
    [index \in DOMAIN reorderImages |->
        [reorderImages[index] EXCEPT !.display_order = index]]

\* A move that exchanges the two tiles.
SpliceMove_Swap(images, fromIndex, toIndex) ==
    [i \in 1..Len(images) |->
        IF i = toIndex + 1 THEN images[fromIndex + 1]
        ELSE IF i = fromIndex + 1 THEN images[toIndex + 1]
        ELSE images[i]]

\* moveImage's two splices; fromIndex and toIndex count from 0.
SpliceMove(images, fromIndex, toIndex) ==
    LET movedImage == images[fromIndex + 1]
        rest == Without(images, fromIndex + 1)
    IN  [i \in 1..Len(images) |->
            IF i < toIndex + 1 THEN rest[i]
            ELSE IF i = toIndex + 1 THEN movedImage
            ELSE rest[i - 1]]

GalleryOp(kind, id, images) ==
    [kind |-> kind, id |-> id, images |-> images, live |-> TRUE]

\* A gallery that always renders the authoritative list.
displayImages_Authoritative(g, images) == images

\* The list whose tiles are rendered and whose indexes the drag handlers use.
displayImages(g, images) == IF g.isReordering THEN g.reorderImages ELSE images

\* The eye button of a tile: opens the preview.
setSelectedImage(imageId) ==
    /\ GalleryShown(modal)
    /\ ~gallery.isReordering
    /\ gallery.selectedImage = NoImage
    /\ \E i \in DOMAIN displayImages(gallery, modal.images) :
          displayImages(gallery, modal.images)[i].id = imageId
    /\ RenderGallery(modal, [gallery EXCEPT !.selectedImage = imageId], ops)
    /\ last' = Idle
    /\ UNCHANGED <<productImages, files, hist, loads, requests, server, faults, fixed, deleted>>

\* The X button of the preview.
closePreview ==
    /\ GalleryShown(modal)
    /\ gallery.selectedImage # NoImage
    /\ RenderGallery(modal, [gallery EXCEPT !.selectedImage = NoImage], ops)
    /\ last' = Idle
    /\ UNCHANGED <<productImages, files, hist, loads, requests, server, faults, fixed, deleted>>

\* handleSetPrimary up to its await: the star button of a non-primary image.
handleSetPrimary(imageId) ==
    /\ GalleryShown(modal)
    /\ ~gallery.isReordering
    /\ \E i \in DOMAIN modal.images :
        modal.images[i].id = imageId /\ ~modal.images[i].is_main
    /\ Len(ops) < limits.ops
    /\ requests < limits.requests
    /\ requests' = requests + 1
    /\ RenderGallery(modal, gallery, Append(ops, GalleryOp("promote", imageId, modal.images)))
    /\ last' = Last("handleSetPrimary", imageId, TRUE, modal.images,
                    <<Req("PUT promote", imageId)>>)
    /\ UNCHANGED <<productImages, files, hist, loads, server, faults, fixed, deleted>>

\* The trash button: opens the confirmation dialog.
openDeleteConfirm(imageId) ==
    /\ GalleryShown(modal)
    /\ ~gallery.isReordering
    /\ gallery.deleteConfirm = NoImage
    /\ \E i \in DOMAIN modal.images : modal.images[i].id = imageId
    /\ RenderGallery(modal, [gallery EXCEPT !.deleteConfirm = imageId], ops)
    /\ last' = Idle
    /\ UNCHANGED <<productImages, files, hist, loads, requests, server, faults, fixed, deleted>>

\* The dialog's onClose.
closeDeleteConfirm ==
    /\ GalleryShown(modal)
    /\ gallery.deleteConfirm # NoImage
    /\ RenderGallery(modal, [gallery EXCEPT !.deleteConfirm = NoImage], ops)
    /\ last' = Idle
    /\ UNCHANGED <<productImages, files, hist, loads, requests, server, faults, fixed, deleted>>

\* The dialog's onConfirm: handleDelete up to its await, then the dialog closes.
handleDelete ==
    /\ GalleryShown(modal)
    /\ gallery.deleteConfirm # NoImage
    /\ Len(ops) < limits.ops
    /\ requests < limits.requests
    /\ requests' = requests + 1
    /\ LET imageId == gallery.deleteConfirm
       IN  /\ RenderGallery(modal,
                  [gallery EXCEPT !.isDeleting = imageId, !.deleteConfirm = NoImage],
                  Append(ops, GalleryOp("delete", imageId, modal.images)))
           /\ last' = Last("handleDelete", imageId, TRUE, modal.images,
                           <<Req("DELETE", imageId)>>)
    /\ UNCHANGED <<productImages, files, hist, loads, server, faults, fixed, deleted>>

handleStartReorder ==
    /\ GalleryShown(modal)
    /\ ~gallery.isReordering
    /\ Len(modal.images) > 1
    /\ RenderGallery(modal,
           [gallery EXCEPT !.reorderImages = modal.images, !.isReordering = TRUE], ops)
    /\ last' = Idle
    /\ UNCHANGED <<productImages, files, hist, loads, requests, server, faults, fixed, deleted>>

\* handleCancelReorder publishing the draft before it leaves reorder mode.
handleCancelReorder_Publish ==
    /\ GalleryShown(modal)
    /\ gallery.isReordering
    /\ RenderGallery(handleImagesChange(modal, gallery.reorderImages),
           [gallery EXCEPT !.reorderImages = <<>>, !.isReordering = FALSE], ops)
    /\ productImages' = gallery.reorderImages
    /\ last' = Last("handleCancelReorder", 0, TRUE, gallery.reorderImages,
                    <<Call("onImagesChange", "")>>)
    /\ UNCHANGED <<files, hist, loads, requests, server, faults, fixed, deleted>>

handleCancelReorder ==
    /\ GalleryShown(modal)
    /\ gallery.isReordering
    /\ RenderGallery(modal,
           [gallery EXCEPT !.reorderImages = <<>>, !.isReordering = FALSE], ops)
    /\ last' = Last("handleCancelReorder", 0, TRUE, gallery.reorderImages, <<>>)
    /\ UNCHANGED <<productImages, files, hist, loads, requests, server, faults, fixed, deleted>>

\* onDrop on the tile at toIndex of the tile dragged from fromIndex.
moveImage(fromIndex, toIndex) ==
    /\ GalleryShown(modal)
    /\ gallery.isReordering
    /\ fromIndex \in 0..(Len(gallery.reorderImages) - 1)
    /\ toIndex \in 0..(Len(gallery.reorderImages) - 1)
    /\ RenderGallery(modal,
           [gallery EXCEPT !.reorderImages = SpliceMove(@, fromIndex, toIndex)], ops)
    /\ last' = Idle
    /\ UNCHANGED <<productImages, files, hist, loads, requests, server, faults, fixed, deleted>>

\* handleSaveReorder up to its await.
handleSaveReorder ==
    /\ GalleryShown(modal)
    /\ gallery.isReordering
    /\ Len(ops) < limits.ops
    /\ requests < limits.requests
    /\ requests' = requests + 1
    /\ RenderGallery(modal, gallery,
           Append(ops, GalleryOp("reorder", 0, gallery.reorderImages)))
    /\ last' = Last("handleSaveReorder", 0, TRUE, gallery.reorderImages,
                    <<Req("PUT reorder", 0)>>)
    /\ UNCHANGED <<productImages, files, hist, loads, server, faults, fixed, deleted>>

\* What the handler of request op does to the list when the request succeeded.
UpdatedImages(op) ==
    CASE op.kind = "promote" -> SetPrimaryImages(op.images, op.id)
      [] op.kind = "delete"  -> DeleteImages(op.images, op.id)
      [] op.kind = "reorder" -> RenumberImages(op.images)

FailureMessage(op) ==
    CASE op.kind = "promote" -> "Failed to set primary image"
      [] op.kind = "delete"  -> "Failed to delete image"
      [] op.kind = "reorder" -> "Failed to reorder images"

\* The gallery state after the handler of op has run to its end.
GalleryAfter(g, op, resolved) ==
    IF ~op.live THEN g
    ELSE CASE op.kind = "promote" -> g
           [] op.kind = "delete"  -> [g EXCEPT !.isDeleting = NoImage]
           [] op.kind = "reorder" ->
                IF resolved THEN [g EXCEPT !.isReordering = FALSE] ELSE g

\* handleSetPrimary, handleDelete or handleSaveReorder after its await.
galleryReturn(i) ==
    /\ i \in DOMAIN ops
    /\ LET op == ops[i]
       IN  \E resp \in ServerResponses(server, op) :
            /\ server' = IF ResponseOk(resp) THEN ServerApply(server, op) ELSE server
            /\ IF ApiResolves(resp)
               THEN /\ RenderGallery(handleImagesChange(modal, UpdatedImages(op)),
                                     GalleryAfter(gallery, op, TRUE), Without(ops, i))
                    /\ productImages' = UpdatedImages(op)
                    /\ last' = [LastOp(op, TRUE, <<Call("onImagesChange", "")>>)
                                  EXCEPT !.resp = resp]
               ELSE /\ RenderGallery(handleError(modal, FailureMessage(op)),
                                     GalleryAfter(gallery, op, FALSE), Without(ops, i))
                    /\ productImages' = productImages
                    /\ last' = [LastOp(op, FALSE, <<Call("onError", FailureMessage(op))>>)
                                  EXCEPT !.resp = resp]
            /\ deleted' = IF ApiResolves(resp) /\ op.kind = "delete"
                          THEN deleted \cup {op.id} ELSE deleted
    /\ UNCHANGED <<files, hist, loads, requests, faults, fixed>>


\* ------------------------------------------------------------- ImageUpload
DEFAULT_ACCEPTED_TYPES == {"image/jpeg", "image/jpg", "image/png", "image/webp"}
DEFAULT_MAX_SIZE == 10485760

File(type, size) == [type |-> type, size |-> size]

\* The files a user can pick: one of the largest accepted size, one of a wrong
\* type and one that is one byte too large.
FileKinds ==
    { File("image/png", DEFAULT_MAX_SIZE),
      File("image/gif", 1),
      File("image/png", DEFAULT_MAX_SIZE + 1) }

\* validateFile without its size test.
validateFile_TypeOnly(file) ==
    IF file.type \notin DEFAULT_ACCEPTED_TYPES THEN "File type is not supported"
    ELSE NoError

\* validateFile: the message, or NoError for null.
validateFile(file) ==
    IF file.type \notin DEFAULT_ACCEPTED_TYPES THEN "File type is not supported"
    ELSE IF file.size > DEFAULT_MAX_SIZE THEN "File size exceeds maximum size"
    ELSE NoError

\* The currentImageCount prop of the current render.
CurrentImageCount ==
    IF parent.kind = "harness" THEN parent.currentImageCount ELSE Len(modal.images)

\* The currentImageCount the memoized handleFiles sees.
MemoImageCount ==
    IF parent.kind = "harness" THEN parent.currentImageCount ELSE Len(upload.hfImages)

\* onUploadError and onUploadComplete as the parent passes them.
OnUploadError(m, errorMessage) ==
    IF parent.kind = "modal" THEN [m EXCEPT !.error = errorMessage] ELSE m

\* handleUploadComplete of the render that saw `images`.
handleUploadComplete(m, images, newImage) ==
    [m EXCEPT !.images = Append(images, newImage), !.activeTab = "gallery"]

OnUploadComplete(m, images, newImage) ==
    IF parent.kind = "modal" THEN handleUploadComplete(m, images, newImage) ELSE m

HistInit ==
    [log |-> <<>>, outcome |-> "none", attempts |-> 0, created |-> 0,
     errors |-> 0, completes |-> 0, seen |-> {}, removed |-> 0]

UploadProgress(f) ==
    [file |-> f, progress |-> 0, status |-> "uploading", error |-> "", imageKey |-> 0]

HasTask(u, f) == \E i \in DOMAIN u : u[i].file = f

\* A filter that keeps every task.
FilterUploads_Keep(u, f) == u

\* prev.filter(upload => upload.file !== file)
FilterUploads(u, f) == SelectSeq(u, LAMBDA x : x.file # f)

\* Math.round of a non-negative quotient.
MathRound(num, den) == (2 * num + den) \div (2 * den)

\* An entry of a file's log: a request of the protocol sent (status 0), or
\* the response or the end event it got.
Sent(step) == [ev |-> step, status |-> 0, json |-> FALSE]
Got(step, status, json) == [ev |-> step, status |-> status, json |-> json]

\* A call of handleFiles (retry FALSE) or retryUpload (retry TRUE) and the
\* uploadFile it is running: the files, the index of the current one, where
\* that one is suspended, and what the call's closures captured.
UploadCall(fs, retry, count, images) ==
    [files |-> fs, i |-> 1, pc |-> "start", retry |-> retry, count |-> count,
     images |-> images, live |-> TRUE, key |-> 0, loaded |-> 0,
     before |-> modal.images, quiet |-> TRUE]

\* uploadFile has returned: handleFiles goes on to its delay, a retry is over.
Returned(b) ==
    IF b.retry \/ b.pc = "done"
    THEN [b EXCEPT !.pc = "done", !.count = 0, !.images = <<>>, !.live = FALSE,
                   !.key = 0, !.loaded = 0]
    ELSE [b EXCEPT !.pc = "delay", !.key = 0, !.loaded = 0]

\* The outcome of a part of uploadFile: the call, the uploads, the modal
\* state, the history and the effects as that part leaves them.
Outcome(b, u, m, h, effects) == [b |-> b, u |-> u, m |-> m, h |-> h, effects |-> effects]

\* The status a task of file f is rendered with after an update made by call b.
Seen(b, u, m, f, status) ==
    IF b.live /\ UploadShown(m) /\ HasTask(u, f) THEN {status} ELSE {}

\* uploadFile (uploadFileLocal or uploadFileS3) from its call to its first
\* await: validation, the new UploadProgress, the negotiate request.
uploadFile(fl, b, u, m, h) ==
    LET f == b.files[b.i]
        validationError == validateFile(fl[f])
    IN  IF validationError # NoError
        THEN Outcome(Returned(b), u, OnUploadError(m, validationError),
                     [h EXCEPT ![f].outcome = "rejected", ![f].attempts = @ + 1,
                               ![f].errors = @ + 1],
                     <<Effect("onUploadError", f, FALSE, validationError)>>)
        ELSE Outcome([b EXCEPT !.pc = "negotiate"],
                     IF b.live THEN Append(u, UploadProgress(f)) ELSE u,
                     m,
                     [h EXCEPT ![f].outcome = "none", ![f].attempts = @ + 1,
                               ![f].created = @ + 1, ![f].log = <<Sent("negotiate")>>,
                               ![f].seen = IF b.live THEN @ \cup {"uploading"} ELSE @],
                     <<Req("negotiate", f)>>)

\* A catch block that reports the error and leaves the task as it is.
uploadFailed_TaskUntouched(b, u, m, h, errorMessage, event) ==
    LET f == b.files[b.i]
    IN  Outcome(Returned(b), u, OnUploadError(m, errorMessage),
                [h EXCEPT ![f].outcome = "error", ![f].errors = @ + 1,
                          ![f].log = Append(@, event)],
                <<Effect("onUploadError", f, FALSE, errorMessage)>>)

\* The catch block of uploadFile.
uploadFailed(b, u, m, h, errorMessage, event) ==
    LET f == b.files[b.i]
    IN  Outcome(Returned(b),
                IF b.live
                THEN [i \in DOMAIN u |->
                        IF u[i].file = f
                        THEN [u[i] EXCEPT !.status = "error", !.error = errorMessage]
                        ELSE u[i]]
                ELSE u,
                OnUploadError(m, errorMessage),
                [h EXCEPT ![f].outcome = "error", ![f].errors = @ + 1,
                          ![f].log = Append(@, event),
                          ![f].seen = @ \cup Seen(b, u, OnUploadError(m, errorMessage), f, "error")],
                <<Effect("onUploadError", f, FALSE, errorMessage)>>)

\* Applies the outcome of a part of uploadFile run by call bi.
Apply(bi, out, t) ==
    /\ Render(out.m, gallery, ops, out.u,
              [i \in DOMAIN batches |->
                 IF i = bi THEN out.b
                 ELSE IF out.m.images = modal.images
                      THEN batches[i]
                      ELSE [batches[i] EXCEPT !.quiet = FALSE]],
              t)
    /\ productImages' = IF parent.kind = "modal" THEN out.m.images ELSE productImages
    /\ hist' = out.h

\* A step of the protocol ends; failed says whether the environment made it fail.
Fault(failed) ==
    /\ failed => faults < limits.faults
    /\ faults' = IF failed THEN faults + 1 ELSE faults

Invalid(fl) == {i \in DOMAIN fl : validateFile(fl[i]) # NoError}

Removals == Cardinality({f \in DOMAIN hist : hist[f].removed > 0})

NewFiles(kinds) == [i \in 1..Len(kinds) |-> Len(files) + i]

Calls(retry) == Cardinality({i \in DOMAIN batches : batches[i].retry = retry})

\* The admission check without the queue length.
TooMany_IgnoreQueue(queued, selected, count, maxFiles) == selected + count > maxFiles

\* The admission check of handleFiles.
TooMany(queued, selected, count, maxFiles) == queued + selected + count > maxFiles

\* handleFiles up to its first await: a selection or a drop of files.
handleFiles(kinds) ==
    /\ UploadShown(modal)
    /\ Len(kinds) > 0
    /\ Len(files) + Len(kinds) <= limits.files
    /\ Cardinality(Invalid(files \o kinds)) <= MaxInvalid
    /\ Calls(FALSE) < limits.batches
    /\ files' = files \o kinds
    /\ IF TooMany(Len(upload.uploads), Len(kinds), MemoImageCount, parent.maxFiles)
       THEN LET msg == "Cannot upload more than maxFiles images per product"
            IN  /\ Render(OnUploadError(modal, msg), gallery, ops, upload.uploads,
                          batches, timers)
                /\ hist' = hist \o [i \in 1..Len(kinds) |-> HistInit]
                /\ last' = Last("handleFiles", Len(files) + 1, FALSE, <<>>,
                                <<Call("onUploadError", msg)>>)
       ELSE LET b == UploadCall(NewFiles(kinds), FALSE, MemoImageCount, upload.hfImages)
                out == uploadFile(files \o kinds, b, upload.uploads, modal,
                                  hist \o [i \in 1..Len(kinds) |-> HistInit])
            IN  /\ Render(out.m, gallery, ops, out.u, Append(batches, out.b), timers)
                /\ hist' = out.h
                /\ last' = Last("handleFiles", Len(files) + 1, TRUE, <<>>, out.effects)
    /\ UNCHANGED <<productImages, loads, requests, server, faults, fixed, deleted>>

\* What the negotiate response holds: both fields, or neither.
NegotiateBodies == {"full", "missing"}

\* uploadFile after the await of the negotiate request.
negotiateReturn(bi) ==
    /\ bi \in DOMAIN batches
    /\ batches[bi].pc = "negotiate"
    /\ \E resp \in Responses, body \in NegotiateBodies :
        LET b == batches[bi]
            f == b.files[b.i]
            got == Got(IF body = "full" THEN "negotiate:response"
                       ELSE "negotiate:response without url",
                       resp.status, resp.json)
            out ==
              IF ~ApiResolves(resp)
              THEN uploadFailed(b, upload.uploads, modal, hist,
                                ApiErrorMessage(resp), got)
              ELSE IF isProduction /\ body = "missing"
              THEN uploadFailed(b, upload.uploads, modal, hist,
                                "Failed to get upload URL from server", got)
              ELSE Outcome([b EXCEPT !.pc = "transfer",
                                     !.key = IF body = "full" THEN f ELSE 0],
                           upload.uploads, modal,
                           [hist EXCEPT ![f].log = @ \o <<got, Sent("transfer")>>],
                           <<Req("transfer", f)>>)
        IN  /\ (~ApiResolves(resp) => body = "full")
            /\ Fault(~ApiResolves(resp) \/ body = "missing")
            /\ Apply(bi, out, timers)
            /\ last' = Last("negotiateReturn", f, out.b.pc = "transfer", <<>>, out.effects)
    /\ UNCHANGED <<files, loads, requests, server, fixed, deleted>>

\* The byte count the progress event of a transfer reports.
ProgressPoints(file) == {file.size \div 2}

\* The progress listener of the transfer.
transferProgress(bi, lengthComputable, loaded) ==
    /\ bi \in DOMAIN batches
    /\ batches[bi].pc = "transfer"
    /\ LET b == batches[bi]
           f == b.files[b.i]
           progress == MathRound(loaded * 100, files[f].size)
       IN  /\ loaded \in ProgressPoints(files[f])
           /\ loaded > b.loaded
           /\ Apply(bi,
                 Outcome([b EXCEPT !.loaded = loaded],
                         IF lengthComputable /\ b.live
                         THEN [i \in DOMAIN upload.uploads |->
                                 IF upload.uploads[i].file = f
                                 THEN [upload.uploads[i] EXCEPT !.progress = progress]
                                 ELSE upload.uploads[i]]
                         ELSE upload.uploads,
                         modal, hist, <<>>),
                 timers)
           /\ last' = Last("transferProgress", f, lengthComputable, <<>>, <<>>)
    /\ UNCHANGED <<files, loads, requests, server, faults, fixed, deleted>>

\* How a transfer ends: onload with a status, onerror, or ontimeout.
XhrEnds ==
    { [event |-> "load", status |-> 200], [event |-> "load", status |-> 403],
      [event |-> "error", status |-> 0], [event |-> "timeout", status |-> 0] }

\* xhr.onload taking every status for a success.
XhrOk_Always(status) == TRUE

\* The status test of xhr.onload.
XhrOk(status) == status >= 200 /\ status < 300

\* One message for every way a transfer fails.
TransferErrorMessage_Generic(end) == "Upload failed"

\* The message of the Error a failed transfer rejects with.
TransferErrorMessage(end) ==
    CASE end.event = "load" ->
            IF isProduction THEN "S3 upload failed with status"
            ELSE "Upload failed with status"
      [] end.event = "error" ->
            IF isProduction THEN "S3 upload failed - network error" ELSE "Upload failed"
      [] end.event = "timeout" -> "S3 upload failed - timeout"

\* Every confirm request asking for the main image.
IsMain_Always(currentImageCount) == TRUE

\* The isMain flag of the confirm request.
IsMain(currentImageCount) == currentImageCount = 0

\* uploadFile after the await of the transfer.
transferEnd(bi, end) ==
    /\ bi \in DOMAIN batches
    /\ batches[bi].pc = "transfer"
    /\ end \in XhrEnds
    /\ (end.event = "timeout" => isProduction)
    /\ LET b == batches[bi]
           f == b.files[b.i]
           got == Got(end.event, end.status, FALSE)
           out ==
             IF end.event = "load" /\ XhrOk(end.status)
             THEN Outcome([b EXCEPT !.pc = "confirm"], upload.uploads, modal,
                          [hist EXCEPT ![f].log = @ \o <<got, Sent("confirm")>>],
                          <<Effect("confirm", f, IsMain(b.count), "")>>)
             ELSE uploadFailed(b, upload.uploads, modal, hist,
                               TransferErrorMessage(end), got)
       IN  /\ Fault(out.b.pc # "confirm")
           /\ Apply(bi, out, timers)
           /\ last' = Last("transferEnd", f, out.b.pc = "confirm", <<>>, out.effects)
    /\ UNCHANGED <<files, loads, requests, server, fixed, deleted>>

\* The image the backend persists for a confirm request.
ServerConfirm(s, isMain) ==
    [images |-> Append(s.images, Image(s.nextId, isMain, Len(s.images) + 1)),
     nextId |-> s.nextId + 1]

\* uploadFile after the await of the confirm request.
confirmReturn(bi) ==
    /\ bi \in DOMAIN batches
    /\ batches[bi].pc = "confirm"
    /\ \E resp \in {r \in Responses : ResponseOk(r) => batches[bi].key # 0} :
        LET b == batches[bi]
            f == b.files[b.i]
            s1 == IF ResponseOk(resp) THEN ServerConfirm(server, IsMain(b.count))
                  ELSE server
            confirmResponse == s1.images[Len(s1.images)]
            got == Got("confirm:response", resp.status, resp.json)
            out ==
              IF ApiResolves(resp)
              THEN Outcome(Returned(b),
                           IF b.live
                           THEN [i \in DOMAIN upload.uploads |->
                                   IF upload.uploads[i].file = f
                                   THEN [upload.uploads[i] EXCEPT
                                           !.status = "success", !.progress = 100,
                                           !.imageKey = b.key]
                                   ELSE upload.uploads[i]]
                           ELSE upload.uploads,
                           OnUploadComplete(modal, b.images, confirmResponse),
                           [hist EXCEPT ![f].outcome = "success",
                                        ![f].completes = @ + 1,
                                        ![f].log = Append(@, got),
                                        ![f].seen = @ \cup Seen(b, upload.uploads,
                                            OnUploadComplete(modal, b.images, confirmResponse),
                                            f, "success")],
                           <<Effect("onUploadComplete", f, confirmResponse.is_main, "")>>)
              ELSE uploadFailed(b, upload.uploads, modal, hist,
                                ApiErrorMessage(resp), got)
        IN  /\ server' = s1
            /\ Fault(~ApiResolves(resp))
            /\ Apply(bi, out,
                     IF ApiResolves(resp)
                     THEN timers \cup {[file |-> f, live |-> b.live]} ELSE timers)
            /\ last' = Last("confirmReturn", f, ApiResolves(resp), b.images, out.effects)
    /\ UNCHANGED <<files, loads, requests, fixed, deleted>>

\* handleFiles going on to the next file without awaiting uploadFile.
delayElapsed_NoAwait(bi) ==
    /\ bi \in DOMAIN batches
    /\ batches[bi].pc \in {"delay", "negotiate"}
    /\ LET b == batches[bi]
           out == IF b.i < Len(b.files)
                  THEN uploadFile(files, [b EXCEPT !.i = @ + 1], upload.uploads, modal, hist)
                  ELSE Outcome(Returned([b EXCEPT !.pc = "done"]), upload.uploads, modal,
                               hist, <<>>)
       IN  /\ Apply(bi, out, timers)
           /\ last' = Last("delayElapsed", b.files[b.i], out.b.pc # "done", <<>>,
                           out.effects)
    /\ UNCHANGED <<files, loads, requests, server, faults, fixed, deleted>>

\* handleFiles after its 500 ms delay: the next file, or the end of the loop.
delayElapsed(bi) ==
    /\ bi \in DOMAIN batches
    /\ batches[bi].pc = "delay"
    /\ LET b == batches[bi]
           out == IF b.i < Len(b.files)
                  THEN uploadFile(files, [b EXCEPT !.i = @ + 1], upload.uploads, modal, hist)
                  ELSE Outcome(Returned([b EXCEPT !.pc = "done"]), upload.uploads, modal,
                               hist, <<>>)
       IN  /\ Apply(bi, out, timers)
           /\ last' = Last("delayElapsed", b.files[b.i], out.b.pc # "done", <<>>,
                           out.effects)
    /\ UNCHANGED <<files, loads, requests, server, faults, fixed, deleted>>

\* A timer that fires and leaves the task in the list.
dismissTimer_KeepTask(t) ==
    /\ t \in timers
    /\ Render(modal, gallery, ops, upload.uploads, batches, timers \ {t})
    /\ last' = Last("dismissTimer", t.file, t.live, <<>>, <<>>)
    /\ UNCHANGED <<productImages, files, hist, loads, requests, server, faults, fixed, deleted>>

\* The 3 s timer of a successful upload fires.
dismissTimer(t) ==
    /\ t \in timers
    /\ Render(modal, gallery, ops,
              IF t.live THEN FilterUploads(upload.uploads, t.file) ELSE upload.uploads,
              batches, timers \ {t})
    /\ last' = Last("dismissTimer", t.file, t.live, <<>>, <<>>)
    /\ UNCHANGED <<productImages, files, hist, loads, requests, server, faults, fixed, deleted>>

\* The X button of a task.
removeUpload(f) ==
    /\ UploadShown(modal)
    /\ HasTask(upload.uploads, f)
    /\ Removals < MaxRemovals
    /\ Render(modal, gallery, ops, FilterUploads(upload.uploads, f), batches, timers)
    /\ hist' = [hist EXCEPT ![f].removed = 1]
    /\ last' = Last("removeUpload", f, TRUE, <<>>, <<>>)
    /\ UNCHANGED <<productImages, files, loads, requests, server, faults, fixed, deleted>>

\* The "Retry upload" button of a task in error, up to uploadFile's first await.
retryUpload(f) ==
    /\ UploadShown(modal)
    /\ \E i \in DOMAIN upload.uploads :
        /\ upload.uploads[i].file = f
        /\ upload.uploads[i].status = "error"
        /\ upload.uploads[i].error # ""
    /\ Calls(TRUE) < limits.retries
    /\ LET b == UploadCall(<<f>>, TRUE, CurrentImageCount, modal.images)
           out == uploadFile(files, b, FilterUploads(upload.uploads, f), modal, hist)
       IN  /\ Render(out.m, gallery, ops, out.u, Append(batches, out.b), timers)
           /\ hist' = out.h
           /\ last' = Last("retryUpload", f, TRUE, <<>>, out.effects)
    /\ UNCHANGED <<productImages, files, loads, requests, server, faults, fixed, deleted>>

\* ------------------------------------------ ImageUpload, the first variant
\* What the first variant never writes.
envAware == <<modal, productImages, gallery, ops, upload, batches, timers, files, hist,
              loads, requests, faults, server, parent, isProduction, limits, auth,
              deleted, orderPages, last>>

\* A JavaScript number as a task's progress holds it: an integer, Infinity or NaN.
Num(n) == [finite |-> TRUE, nan |-> FALSE, n |-> n]
Infinity == [finite |-> FALSE, nan |-> FALSE, n |-> 0]
NaN == [finite |-> FALSE, nan |-> TRUE, n |-> 0]

\* Math.round((loaded * 100) / total)
RoundedPercent(loaded, total) ==
    IF total # 0 THEN Num(MathRound(loaded * 100, total))
    ELSE IF loaded = 0 THEN NaN ELSE Infinity

\* progressEvent.total: 0 when the length is not computable.
EventTotal(file, lengthComputable) == IF lengthComputable THEN file.size ELSE 0

\* fileArray.slice(0, end)
Slice0(s, end) ==
    LET n == IF end < 0 THEN (IF Len(s) + end < 0 THEN 0 ELSE Len(s) + end)
             ELSE IF end > Len(s) THEN Len(s) ELSE end
    IN  SubSeq(s, 1, n)

\* The component after construction: no File seen, no task, no uploadFile
\* running.
BasicInit ==
    [files |-> <<>>, uploads |-> <<>>, calls |-> <<>>, batches |-> <<>>,
     faults |-> 0, removals |-> 0]

BasicUploadProgress(f) ==
    [file |-> f, progress |-> Num(0), status |-> "uploading", error |-> "", imageKey |-> 0]

\* uploadFile of the first variant from its call to its first await.
basicUploadFile(st, f) ==
    LET validationError == validateFile(st.files[f])
    IN  IF validationError # NoError
        THEN [st EXCEPT !.calls[f].pc = "rejected"]
        ELSE [st EXCEPT !.uploads = Append(@, BasicUploadProgress(f)),
                        !.calls[f].pc = "negotiate"]

\* filesToUpload.forEach(uploadFile): every call runs to its first await.
RECURSIVE ForEachUploadFile(_, _)
ForEachUploadFile(st, fs) ==
    IF fs = <<>> THEN st
    ELSE ForEachUploadFile(basicUploadFile(st, Head(fs)), Tail(fs))

\* handleFiles of the first variant.
basicHandleFiles(kinds) ==
    /\ Len(kinds) > 0
    /\ Len(basic.files) + Len(kinds) <= limits.files
    /\ Cardinality(Invalid(basic.files \o kinds)) <= MaxInvalid
    /\ Len(basic.batches) < limits.batches
    /\ LET fileArray == [i \in 1..Len(kinds) |-> Len(basic.files) + i]
           remainingSlots == parent.maxFiles - Len(basic.uploads)
           filesToUpload == Slice0(fileArray, remainingSlots)
           st == [basic EXCEPT
                    !.files = @ \o kinds,
                    !.calls = @ \o [i \in 1..Len(kinds) |->
                                      [pc |-> "none", key |-> 0, loaded |-> 0]],
                    !.batches = Append(@, [files |-> fileArray,
                                           queued |-> Len(basic.uploads),
                                           filesToUpload |-> filesToUpload])]
       IN  basic' = ForEachUploadFile(st, filesToUpload)
    /\ UNCHANGED envAware

\* The catch block of the first variant's uploadFile.
basicFailed(st, f, errorMessage) ==
    [st EXCEPT !.uploads = [i \in DOMAIN @ |->
                              IF @[i].file = f
                              THEN [@[i] EXCEPT !.status = "error", !.error = errorMessage]
                              ELSE @[i]],
               !.calls[f].pc = "error",
               !.faults = @ + 1]

\* uploadFile of the first variant after the await of the negotiate request.
basicNegotiateReturn(f) ==
    /\ f \in DOMAIN basic.calls
    /\ basic.calls[f].pc = "negotiate"
    /\ \E resp \in Responses, body \in NegotiateBodies :
        /\ (~ApiResolves(resp) => body = "full" /\ basic.faults < limits.faults)
        /\ basic' = IF ~ApiResolves(resp)
                    THEN basicFailed(basic, f, ApiErrorMessage(resp))
                    ELSE [basic EXCEPT !.calls[f].pc = "transfer",
                                       !.calls[f].key = IF body = "full" THEN f ELSE 0]
    /\ UNCHANGED envAware

\* The progress listener of the first variant.
basicProgress(f, lengthComputable, loaded) ==
    /\ f \in DOMAIN basic.calls
    /\ basic.calls[f].pc = "transfer"
    /\ loaded \in ProgressPoints(basic.files[f])
    /\ loaded > basic.calls[f].loaded
    /\ LET progress == RoundedPercent(loaded, EventTotal(basic.files[f], lengthComputable))
       IN  basic' = [basic EXCEPT
                       !.uploads = [i \in DOMAIN @ |->
                                      IF @[i].file = f
                                      THEN [@[i] EXCEPT !.progress = progress]
                                      ELSE @[i]],
                       !.calls[f].loaded = loaded]
    /\ UNCHANGED envAware

\* uploadFile of the first variant after the await of the transfer.
basicTransferEnd(f, end) ==
    /\ f \in DOMAIN basic.calls
    /\ basic.calls[f].pc = "transfer"
    /\ end \in XhrEnds
    /\ end.event # "timeout"
    /\ IF end.event = "load" /\ XhrOk(end.status)
       THEN basic' = [basic EXCEPT !.calls[f].pc = "confirm"]
       ELSE /\ basic.faults < limits.faults
            /\ basic' = basicFailed(basic, f,
                                    IF end.event = "load" THEN "Upload failed with status"
                                    ELSE "Upload failed")
    /\ UNCHANGED envAware

\* uploadFile of the first variant after the await of the confirm request.
basicConfirmReturn(f) ==
    /\ f \in DOMAIN basic.calls
    /\ basic.calls[f].pc = "confirm"
    /\ \E resp \in {r \in Responses : ResponseOk(r) => basic.calls[f].key # 0} :
        /\ (~ApiResolves(resp) => basic.faults < limits.faults)
        /\ basic' = IF ApiResolves(resp)
                    THEN [basic EXCEPT
                            !.uploads = [i \in DOMAIN @ |->
                                           IF @[i].file = f
                                           THEN [@[i] EXCEPT !.status = "success",
                                                             !.imageKey = basic.calls[f].key]
                                           ELSE @[i]],
                            !.calls[f].pc = "success"]
                    ELSE basicFailed(basic, f, ApiErrorMessage(resp))
    /\ UNCHANGED envAware

\* The X button of a task of the first variant.
basicRemoveUpload(f) ==
    /\ HasTask(basic.uploads, f)
    /\ basic.removals < MaxRemovals
    /\ basic' = [basic EXCEPT !.uploads = FilterUploads(@, f), !.removals = @ + 1]
    /\ UNCHANGED envAware

\* ---------------------------------------------- OrdersPage, OrderDetailPage
\* OrderStatus, and the status buttons rendered for an order.
OrderStatuses == {"pending", "paid", "cancelled", "delivered"}

StatusButtons(status) ==
    CASE status = "pending" -> {"paid", "cancelled"}
      [] status = "paid"    -> {"delivered", "cancelled"}
      [] OTHER              -> {}

\* The backend is not part of the repository: it is taken to accept the same
\* status changes the buttons offer.
OrderBackendAccepts(status, newStatus) == newStatus \in StatusButtons(status)

\* Both pages loaded with the backend's orders; the detail page shows order 1.
OrderPagesInit(statuses) ==
    [backend |-> statuses,
     list |-> [orders |-> statuses, error |-> "", calls |-> <<>>, updates |-> 0],
     detail |-> [order |-> [id |-> 1, status |-> statuses[1]], error |-> "",
                 isUpdating |-> FALSE, calls |-> <<>>, updates |-> 0]]

\* What the order pages never write.
notOrders == <<modal, productImages, gallery, ops, upload, batches, timers, files, hist,
               loads, requests, faults, server, parent, isProduction, limits, auth,
               deleted, basic, last>>

\* A handleStatusUpdate suspended at its await, with the state its closure
\* captured and the response once the backend has answered.
StatusCall(orderId, newStatus, captured) ==
    [orderId |-> orderId, newStatus |-> newStatus, captured |-> captured,
     resp |-> NoResponse]

\* OrdersPage.handleStatusUpdate up to its await: a status button of a row.
listStatusUpdate(orderId, newStatus) ==
    /\ orderPages.list.error = ""
    /\ orderId \in DOMAIN orderPages.list.orders
    /\ newStatus \in StatusButtons(orderPages.list.orders[orderId])
    /\ orderPages.list.updates < MaxStatusUpdates
    /\ orderPages' = [orderPages EXCEPT
                        !.list.calls = Append(@, StatusCall(orderId, newStatus,
                                                            orderPages.list.orders)),
                        !.list.updates = @ + 1]
    /\ UNCHANGED notOrders

\* The backend answers a status request of a page.
backendAnswers(page, i) ==
    /\ i \in DOMAIN orderPages[page].calls
    /\ orderPages[page].calls[i].resp = NoResponse
    /\ LET call == orderPages[page].calls[i]
       IN  \E resp \in Responses :
            /\ ResponseOk(resp) =>
                  OrderBackendAccepts(orderPages.backend[call.orderId], call.newStatus)
            /\ orderPages' = [orderPages EXCEPT
                                ![page].calls[i].resp = resp,
                                !.backend[call.orderId] =
                                    IF ResponseOk(resp) THEN call.newStatus ELSE @]
    /\ UNCHANGED notOrders

\* OrdersPage.handleStatusUpdate after its await.
listStatusReturn(i) ==
    /\ i \in DOMAIN orderPages.list.calls
    /\ orderPages.list.calls[i].resp # NoResponse
    /\ LET call == orderPages.list.calls[i]
       IN  orderPages' = [orderPages EXCEPT
                            !.list.calls = Without(@, i),
                            !.list.orders =
                                IF ApiResolves(call.resp)
                                THEN [call.captured EXCEPT ![call.orderId] = call.newStatus]
                                ELSE @,
                            !.list.error =
                                IF ApiResolves(call.resp) THEN @
                                ELSE ApiErrorMessage(call.resp)]
    /\ UNCHANGED notOrders

\* OrderDetailPage.handleStatusUpdate up to its await: an enabled status button.
detailStatusUpdate(newStatus) ==
    /\ orderPages.detail.error = ""
    /\ ~orderPages.detail.isUpdating
    /\ newStatus \in StatusButtons(orderPages.detail.order.status)
    /\ orderPages.detail.updates < MaxStatusUpdates
    /\ orderPages' = [orderPages EXCEPT
                        !.detail.isUpdating = TRUE,
                        !.detail.calls = Append(@, StatusCall(orderPages.detail.order.id,
                                                   newStatus, orderPages.detail.order)),
                        !.detail.updates = @ + 1]
    /\ UNCHANGED notOrders

\* OrderDetailPage.handleStatusUpdate after its await.
detailStatusReturn(i) ==
    /\ i \in DOMAIN orderPages.detail.calls
    /\ orderPages.detail.calls[i].resp # NoResponse
    /\ LET call == orderPages.detail.calls[i]
       IN  orderPages' = [orderPages EXCEPT
                            !.detail.calls = Without(@, i),
                            !.detail.order =
                                IF ApiResolves(call.resp)
                                THEN [call.captured EXCEPT !.status = call.newStatus]
                                ELSE @,
                            !.detail.error =
                                IF ApiResolves(call.resp) THEN @
                                ELSE ApiErrorMessage(call.resp),
                            !.detail.isUpdating = FALSE]
    /\ UNCHANGED notOrders

\* ------------------------------------------------------------ AuthProvider
\* A User, or null (present FALSE).
User(role) == [present |-> TRUE, role |-> role]
Null == [present |-> FALSE, role |-> ""]

\* The answers of GET /user/profile: the fetch fails, or a response that is ok
\* or not, whose body is not JSON or a profile with a role or without one.
ProfileResponses ==
    { [fetched |-> FALSE, ok |-> FALSE, body |-> "none"] } \cup
    { [fetched |-> TRUE, ok |-> ok, body |-> body] :
        ok \in BOOLEAN, body \in {"admin", "user", "no role", "not json"} }

\* verifyAuthentication taking every profile for an admin's.
verifyAuthentication_AnyRole(resp) ==
    IF resp.fetched /\ resp.ok /\ resp.body # "not json"
    THEN [isAuthenticated |-> TRUE, user |-> User(resp.body)]
    ELSE [isAuthenticated |-> FALSE, user |-> Null]

\* AuthService.verifyAuthentication, given the response to its fetch.
verifyAuthentication(resp) ==
    IF resp.fetched /\ resp.ok /\ resp.body = "admin"
    THEN [isAuthenticated |-> TRUE, user |-> User(resp.body)]
    ELSE [isAuthenticated |-> FALSE, user |-> Null]

\* The messages the window can receive while a popup is open.
Messages ==
    { [origin |-> origin, data |-> data] :
        origin \in {"backend", "other"},
        data \in {"typed", "success admin", "success user", "success no role",
                  "success without user", "error", "other"} }

MessageUser(data) ==
    CASE data = "success admin" -> User("admin")
      [] data = "success user" -> User("user")
      [] data = "success no role" -> User("")
      [] OTHER -> Null

\* handleMessage of loginWithGoogle: what it does to the promise.
handleMessage(msg) ==
    IF msg.data = "typed" \/ msg.origin # "backend" THEN "ignored"
    ELSE IF MessageUser(msg.data).present
    THEN IF MessageUser(msg.data).role # "admin" THEN "reject" ELSE "resolve"
    ELSE IF msg.data = "error" THEN "reject"
    ELSE "ignored"

isAuthenticated(a) == a.user.present

\* ProtectedRoute: what it returns.
ProtectedRoute(a) ==
    IF a.isLoading THEN "spinner"
    ELSE IF isAuthenticated(a) THEN "children" ELSE "Navigate /login"

\* AppRoutes: what is on the screen for the state and the path.
AppRoutes(a) ==
    IF a.path = "/login"
    THEN IF isAuthenticated(a) THEN "Navigate /" ELSE "LoginPage"
    ELSE ProtectedRoute(a)

\* The render after a change of the auth state, with the navigation it makes.
Routed(a) ==
    CASE AppRoutes(a) = "Navigate /" -> [a EXCEPT !.path = "/"]
      [] AppRoutes(a) = "Navigate /login" -> [a EXCEPT !.path = "/login"]
      [] OTHER -> a

\* The auth state of a session in which an admin is signed in.
SignedIn ==
    [user |-> User("admin"), isLoading |-> FALSE, path |-> "/", checking |-> FALSE,
     logins |-> <<>>, logouts |-> 0, calls |-> 0]

images == <<modal, productImages, gallery, ops, upload, batches, timers, files, hist,
            loads, requests, faults, server, parent, isProduction, limits, deleted,
            basic, orderPages>>

\* The user types an address or follows a link.
navigate(path) ==
    /\ auth.path # path
    /\ auth' = Routed([auth EXCEPT !.path = path])
    /\ last' = Last("navigate", 0, TRUE, <<>>, <<>>)
    /\ UNCHANGED images

\* checkAuthentication after its await.
checkAuthenticationReturn ==
    /\ auth.checking
    /\ \E resp \in ProfileResponses :
        LET result == verifyAuthentication(resp)
        IN  /\ auth' = Routed([auth EXCEPT
                          !.user = IF result.isAuthenticated /\ result.user.present
                                   THEN result.user ELSE Null,
                          !.isLoading = FALSE,
                          !.checking = FALSE])
            /\ last' = Last("checkAuthentication", 0, result.isAuthenticated, <<>>, <<>>)
    /\ UNCHANGED images

\* login up to its await; the popup opens or is blocked.
login(popup) ==
    /\ auth.calls < MaxAuthCalls
    /\ auth' = Routed([auth EXCEPT !.isLoading = popup,
                                   !.logins = IF popup THEN Append(@, TRUE) ELSE @,
                                   !.calls = @ + 1])
    /\ last' = Last("login", 0, popup, <<>>,
                    IF popup THEN <<>>
                    ELSE <<Call("throw", "Could not open popup window")>>)
    /\ UNCHANGED images

\* A message event while login li listens, and login after its await.
popupMessage(li, msg) ==
    /\ li \in DOMAIN auth.logins
    /\ auth.logins[li]
    /\ msg \in Messages
    /\ LET settles == handleMessage(msg)
       IN  /\ auth' = Routed(
                 CASE settles = "resolve" ->
                        [auth EXCEPT !.user = MessageUser(msg.data), !.isLoading = FALSE,
                                     !.logins[li] = FALSE]
                   [] settles = "reject" ->
                        [auth EXCEPT !.isLoading = FALSE, !.logins[li] = FALSE]
                   [] OTHER -> auth)
           /\ last' = Last("popupMessage", li, settles = "resolve", <<>>,
                           IF settles = "reject" THEN <<Call("throw", msg.data)>> ELSE <<>>)
    /\ UNCHANGED images

\* The popup of login li is closed, or its 5 minutes are over.
loginRejected(li, why) ==
    /\ li \in DOMAIN auth.logins
    /\ auth.logins[li]
    /\ auth' = Routed([auth EXCEPT !.isLoading = FALSE, !.logins[li] = FALSE])
    /\ last' = Last("loginRejected", li, FALSE, <<>>, <<Call("throw", why)>>)
    /\ UNCHANGED images

\* logout up to its await.
logout ==
    /\ auth.calls < MaxAuthCalls
    /\ auth' = [auth EXCEPT !.logouts = @ + 1, !.calls = @ + 1]
    /\ last' = Last("logout", 0, TRUE, <<>>, <<Req("POST logout", 0)>>)
    /\ UNCHANGED images

\* logout after its await, whatever the request did.
logoutReturn ==
    /\ auth.logouts > 0
    /\ auth' = Routed([auth EXCEPT !.user = Null, !.logouts = @ - 1])
    /\ last' = Last("logoutReturn", 0, TRUE, <<>>, <<>>)
    /\ UNCHANGED images

\* ------------------------------------------------------------------- specs
InitialImages(n, mainAt) ==
    [i \in 1..n |-> Image(i, i = mainAt, i)]

\* The modal has been opened and loadImages has returned the product's images.
InitModal(lists, lim, production) ==
    \E initialImages \in lists :
        /\ modal = [images |-> initialImages, isLoading |-> FALSE,
                    error |-> NoError, activeTab |-> "gallery"]
        /\ productImages = initialImages
        /\ server = ServerInit(initialImages)
        /\ gallery = GalleryInit
        /\ ops = <<>>
        /\ upload = UploadInit
        /\ batches = <<>>
        /\ timers = {}
        /\ files = <<>>
        /\ hist = <<>>
        /\ loads = 0
        /\ requests = 0
        /\ faults = 0
        /\ deleted = {}
        /\ basic = BasicInit
        /\ orderPages = OrderPagesInit(<<"pending", "pending">>)
        /\ auth = SignedIn
        /\ parent = [kind |-> "modal", currentImageCount |-> Len(initialImages),
                     maxFiles |-> 10, opened |-> Len(initialImages)]
        /\ isProduction \in production
        /\ \E l \in lim :
             limits = [l EXCEPT !.ops = IF Len(initialImages) <= MaxConcurrentImages
                                        THEN @ ELSE 1]
        /\ last = Last("open", 0, TRUE, <<>>, <<>>)

\* The sessions explored: one selection of up to MaxBatch files with one failing
\* step, MaxBatches selections of MaxBatches files in all with one failing
\* step, or a single file with MaxFaults failing steps.  galleryRequests is
\* the number of gallery requests of the session.
UploadSessions(galleryRequests) ==
    { [ops |-> galleryRequests, requests |-> galleryRequests, files |-> MaxBatch,
       batches |-> 1, retries |-> MaxRetries, faults |-> 1],
      [ops |-> galleryRequests, requests |-> galleryRequests, files |-> MaxBatches,
       batches |-> MaxBatches, retries |-> MaxRetries, faults |-> 1],
      [ops |-> galleryRequests, requests |-> galleryRequests, files |-> 1,
       batches |-> 1, retries |-> MaxRetries, faults |-> MaxFaults] }

Sequences(S, n) == UNION {[1..k -> S] : k \in 1..n}

ModalActions ==
    \/ \E tab \in {"gallery", "upload"} : setActiveTab(tab)
    \/ loadImages
    \/ loadImagesReturn

GalleryActions ==
    \/ \E id \in 1..(MaxGalleryImages + MaxFileObjs) : handleSetPrimary(id)
    \/ \E id \in 1..(MaxGalleryImages + MaxFileObjs) : openDeleteConfirm(id)
    \/ closeDeleteConfirm
    \/ handleDelete
    \/ handleStartReorder
    \/ handleCancelReorder
    \/ \E f, t \in 0..(MaxGalleryImages + MaxFileObjs - 1) : moveImage(f, t)
    \/ handleSaveReorder
    \/ \E i \in 1..MaxGalleryOps : galleryReturn(i)

UploadActions ==
    \/ \E kinds \in Sequences(FileKinds, MaxBatch) : handleFiles(kinds)
    \/ \E bi \in 1..(MaxBatches + MaxRetries) : negotiateReturn(bi)
    \/ \E bi \in 1..(MaxBatches + MaxRetries), c \in BOOLEAN :
         \E n \in UNION {ProgressPoints(k) : k \in FileKinds} : transferProgress(bi, c, n)
    \/ \E bi \in 1..(MaxBatches + MaxRetries), end \in XhrEnds : transferEnd(bi, end)
    \/ \E bi \in 1..(MaxBatches + MaxRetries) : confirmReturn(bi)
    \/ \E bi \in 1..(MaxBatches + MaxRetries) : delayElapsed(bi)
    \/ \E t \in timers : dismissTimer(t)
    \/ \E f \in 1..MaxFileObjs : removeUpload(f)

\* The gallery of the modal, no file being uploaded.
InitGallery ==
    InitModal({InitialImages(n, mainAt) : n \in 0..MaxGalleryImages,
                                          mainAt \in 0..MaxGalleryImages},
              {[ops |-> MaxGalleryOps, requests |-> MaxRequests, files |-> 0, batches |-> 0,
                retries |-> 0, faults |-> 0]},
              {FALSE})

NextGallery == ModalActions \/ GalleryActions

SpecGallery == InitGallery /\ [][NextGallery]_vars

\* The modal with both tabs in use.
Init ==
    InitModal({InitialImages(n, 1) : n \in 0..MaxInitImages},
              {[p EXCEPT !.retries = 0] : p \in UploadSessions(1)},
              BOOLEAN)

Next == ModalActions \/ UploadActions

Spec == Init /\ [][Next]_vars

\* The modal opened on a product one image short of maxFiles: two selections
\* of one file each, one failing step.
InitCap ==
    InitModal({InitialImages(10 - 1, 1)},
              {[ops |-> 0, requests |-> 0, files |-> MaxBatches, batches |-> MaxBatches,
                retries |-> 0, faults |-> 1]},
              BOOLEAN)

SpecCap == InitCap /\ [][Next]_vars

\* The gallery with its preview, one request at a time.
InitModes ==
    InitModal({InitialImages(n, 1) : n \in 0..MaxGalleryImages},
              {[ops |-> 1, requests |-> 1, files |-> 0, batches |-> 0, retries |-> 0,
                faults |-> 0]},
              {FALSE})

PreviewActions ==
    \/ \E id \in 1..MaxGalleryImages : setSelectedImage(id)
    \/ closePreview

NextModes == ModalActions \/ GalleryActions \/ PreviewActions

SpecModes == InitModes /\ [][NextModes]_vars

\* The modal with gallery requests and one upload in flight together: the
\* handlers of a tab go on after the user has switched to the other tab.
InitTabs ==
    InitModal({InitialImages(MaxConcurrentImages, 1)},
              {[ops |-> 1, requests |-> 1, files |-> 1, batches |-> 1, retries |-> 0,
                faults |-> 0]},
              BOOLEAN)

NextTabs == ModalActions \/ GalleryActions \/ UploadActions

SpecTabs == InitTabs /\ [][NextTabs]_vars

\* ImageUpload rendered on its own by a parent that only records the callbacks.
InitQueue ==
    /\ modal = [images |-> <<>>, isLoading |-> FALSE, error |-> NoError,
                activeTab |-> "upload"]
    /\ productImages = <<>>
    /\ server = ServerInit(<<>>)
    /\ gallery = GalleryInit
    /\ ops = <<>>
    /\ upload = UploadInit
    /\ batches = <<>>
    /\ timers = {}
    /\ files = <<>>
    /\ hist = <<>>
    /\ loads = 0
    /\ requests = 0
    /\ faults = 0
    /\ deleted = {}
    /\ basic = BasicInit
    /\ orderPages = OrderPagesInit(<<"pending", "pending">>)
    /\ auth = SignedIn
    /\ \E c \in 0..1, mx \in {MaxBatch - 1, MaxBatch} :
         parent = [kind |-> "harness", currentImageCount |-> c, maxFiles |-> mx,
                   opened |-> c]
    /\ isProduction \in BOOLEAN
    /\ limits \in UploadSessions(0)
    /\ last = Last("open", 0, TRUE, <<>>, <<>>)

NextQueue ==
    \/ UploadActions
    \/ \E f \in 1..MaxFileObjs : retryUpload(f)

SpecQueue == InitQueue /\ [][NextQueue]_vars

\* The scheduling of the browser: a timer that is set fires, a request that
\* was sent gets its response, a transfer gets its end event, and the delay
\* of handleFiles elapses.  Nothing makes the user act.
Scheduling ==
    /\ \A f \in 1..MaxFileObjs, l \in BOOLEAN :
          WF_vars(dismissTimer([file |-> f, live |-> l]))
    /\ \A bi \in 1..(MaxBatches + MaxRetries) :
          /\ WF_vars(negotiateReturn(bi))
          /\ WF_vars(\E end \in XhrEnds : transferEnd(bi, end))
          /\ WF_vars(confirmReturn(bi))
          /\ WF_vars(delayElapsed(bi))

\* ImageUpload on its own, one selection of up to two files, one failing step.
InitLive ==
    /\ modal = [images |-> <<>>, isLoading |-> FALSE, error |-> NoError,
                activeTab |-> "upload"]
    /\ productImages = <<>>
    /\ server = ServerInit(<<>>)
    /\ gallery = GalleryInit
    /\ ops = <<>>
    /\ upload = UploadInit
    /\ batches = <<>>
    /\ timers = {}
    /\ files = <<>>
    /\ hist = <<>>
    /\ loads = 0
    /\ requests = 0
    /\ faults = 0
    /\ deleted = {}
    /\ basic = BasicInit
    /\ orderPages = OrderPagesInit(<<"pending", "pending">>)
    /\ auth = SignedIn
    /\ \E c \in 0..1 :
         parent = [kind |-> "harness", currentImageCount |-> c, maxFiles |-> MaxBatch,
                   opened |-> c]
    /\ isProduction \in BOOLEAN
    /\ limits = [ops |-> 0, requests |-> 0, files |-> MaxBatches, batches |-> 1,
                 retries |-> MaxRetries, faults |-> 1]
    /\ last = Last("open", 0, TRUE, <<>>, <<>>)

SpecLive == InitLive /\ [][NextQueue]_vars /\ Scheduling

\* The first variant rendered on its own by a parent that only records the
\* callbacks.
InitBasic ==
    /\ modal = [images |-> <<>>, isLoading |-> FALSE, error |-> NoError,
                activeTab |-> "upload"]
    /\ productImages = <<>>
    /\ server = ServerInit(<<>>)
    /\ gallery = GalleryInit
    /\ ops = <<>>
    /\ upload = UploadInit
    /\ batches = <<>>
    /\ timers = {}
    /\ files = <<>>
    /\ hist = <<>>
    /\ loads = 0
    /\ requests = 0
    /\ faults = 0
    /\ deleted = {}
    /\ basic = BasicInit
    /\ orderPages = OrderPagesInit(<<"pending", "pending">>)
    /\ auth = SignedIn
    /\ \E mx \in {MaxBatch - 1, MaxBatch} :
         parent = [kind |-> "harness", currentImageCount |-> 0, maxFiles |-> mx,
                   opened |-> 0]
    /\ isProduction = FALSE
    /\ limits = [ops |-> 0, requests |-> 0, files |-> MaxFileObjs, batches |-> MaxBatches,
                 retries |-> 0, faults |-> 1]
    /\ last = Last("open", 0, TRUE, <<>>, <<>>)

NextBasic ==
    \/ \E kinds \in Sequences(FileKinds, MaxBatch) : basicHandleFiles(kinds)
    \/ \E f \in 1..MaxFileObjs : basicNegotiateReturn(f)
    \/ \E f \in 1..MaxFileObjs, c \in BOOLEAN :
         \E n \in UNION {ProgressPoints(k) : k \in FileKinds} : basicProgress(f, c, n)
    \/ \E f \in 1..MaxFileObjs, end \in XhrEnds : basicTransferEnd(f, end)
    \/ \E f \in 1..MaxFileObjs : basicConfirmReturn(f)
    \/ \E f \in 1..MaxFileObjs : basicRemoveUpload(f)

SpecBasic == InitBasic /\ [][NextBasic]_vars

\* The two order pages on MaxOrders orders that are pending or paid.
InitOrders ==
    /\ modal = [images |-> <<>>, isLoading |-> FALSE, error |-> NoError,
                activeTab |-> "gallery"]
    /\ productImages = <<>>
    /\ server = ServerInit(<<>>)
    /\ gallery = GalleryInit
    /\ ops = <<>>
    /\ upload = UploadInit
    /\ batches = <<>>
    /\ timers = {}
    /\ files = <<>>
    /\ hist = <<>>
    /\ loads = 0
    /\ requests = 0
    /\ faults = 0
    /\ deleted = {}
    /\ basic = BasicInit
    /\ \E statuses \in [1..MaxOrders -> {"pending", "paid"}] :
         orderPages = OrderPagesInit(statuses)
    /\ auth = SignedIn
    /\ parent = [kind |-> "none", currentImageCount |-> 0, maxFiles |-> 0, opened |-> 0]
    /\ isProduction = FALSE
    /\ limits = [ops |-> 0, requests |-> 0, files |-> 0, batches |-> 0, retries |-> 0,
                 faults |-> 0]
    /\ last = Last("open", 0, TRUE, <<>>, <<>>)

NextOrders ==
    \/ \E orderId \in 1..MaxOrders, newStatus \in OrderStatuses :
         listStatusUpdate(orderId, newStatus)
    \/ \E page \in {"list", "detail"}, i \in 1..MaxStatusUpdates : backendAnswers(page, i)
    \/ \E i \in 1..MaxStatusUpdates : listStatusReturn(i)
    \/ \E newStatus \in OrderStatuses : detailStatusUpdate(newStatus)
    \/ \E i \in 1..MaxStatusUpdates : detailStatusReturn(i)

SpecOrders == InitOrders /\ [][NextOrders]_vars


\* The application is loaded: AuthProvider mounts and checks the session.
InitAuth ==
    /\ modal = [images |-> <<>>, isLoading |-> FALSE, error |-> NoError,
                activeTab |-> "gallery"]
    /\ productImages = <<>>
    /\ server = ServerInit(<<>>)
    /\ gallery = GalleryInit
    /\ ops = <<>>
    /\ upload = UploadInit
    /\ batches = <<>>
    /\ timers = {}
    /\ files = <<>>
    /\ hist = <<>>
    /\ loads = 0
    /\ requests = 0
    /\ faults = 0
    /\ deleted = {}
    /\ basic = BasicInit
    /\ orderPages = OrderPagesInit(<<"pending", "pending">>)
    /\ parent = [kind |-> "none", currentImageCount |-> 0, maxFiles |-> 10, opened |-> 0]
    /\ isProduction = FALSE
    /\ limits = [ops |-> 0, requests |-> 0, files |-> 0, batches |-> 0, retries |-> 0,
                 faults |-> 0]
    /\ \E path \in {"/", "/login"} :
         auth = [user |-> Null, isLoading |-> TRUE, path |-> path, checking |-> TRUE,
                 logins |-> <<>>, logouts |-> 0, calls |-> 0]
    /\ last = Last("open", 0, TRUE, <<>>, <<>>)

NextAuth ==
    \/ \E path \in {"/", "/login"} : navigate(path)
    \/ checkAuthenticationReturn
    \/ \E popup \in BOOLEAN : login(popup)
    \/ \E li \in 1..MaxAuthCalls, msg \in Messages : popupMessage(li, msg)
    \/ \E li \in 1..MaxAuthCalls, why \in {"popup was closed", "timeout"} :
         loginRejected(li, why)
    \/ logout
    \/ logoutReturn

SpecAuth == InitAuth /\ [][NextAuth]_vars

\* ------------------------------------------------------------- properties
\* What validateFile has to refuse, stated on the file itself.
Unacceptable(file) ==
    \/ file.type \notin {"image/jpeg", "image/jpg", "image/png", "image/webp"}
    \/ file.size > 10 * 1024 * 1024

ProtocolSteps == {"negotiate", "transfer", "confirm"}

\* C1: a file whose type is outside the accepted set or whose size exceeds the
\* maximum is reported through the error callback at every attempt, never
\* gets an UploadTask and never causes a negotiate, transfer or confirm
\* request, in the local and in the S3 variant alike.
C1_ValidationRejects ==
    /\ \A f \in DOMAIN files :
          Unacceptable(files[f]) =>
            /\ hist[f].created = 0
            /\ hist[f].log = <<>>
            /\ hist[f].seen = {}
            /\ ~HasTask(upload.uploads, f)
            /\ hist[f].errors = hist[f].attempts
            /\ hist[f].attempts > 0 => hist[f].outcome = "rejected"
    /\ \A i \in DOMAIN last.effects :
          /\ last.effects[i].kind \in ProtocolSteps =>
                ~Unacceptable(files[last.effects[i].id])
          /\ (last.effects[i].kind = "onUploadError" /\ last.effects[i].id # 0
                /\ Unacceptable(files[last.effects[i].id])) =>
                last.effects[i].msg \in
                    {"File type is not supported", "File size exceeds maximum size"}

\* A file one byte over the maximum, second of its selection, has been refused.
C1_Witness ==
    \E bi \in DOMAIN batches :
        /\ batches[bi].i >= 2
        /\ LET f == batches[bi].files[2]
           IN  /\ files[f].size = DEFAULT_MAX_SIZE + 1
               /\ files[f].type = "image/png"
               /\ hist[f].outcome = "rejected"
               /\ hist[f].errors = 1

Confirmed == {f \in DOMAIN hist : hist[f].completes > 0}

\* C2: in a session opened on a product without images, the first upload to
\* be confirmed was confirmed with isMain = true, and a confirm request sent
\* once an upload of the session has been confirmed carries isMain = false.
C2_MainOnlyFirst ==
    parent.opened = 0 =>
        \A i \in DOMAIN last.effects :
            /\ (/\ last.effects[i].kind = "onUploadComplete"
                /\ Confirmed = {last.effects[i].id}
                /\ hist[last.effects[i].id].completes = 1) =>
                  last.effects[i].flag
            /\ (last.effects[i].kind = "confirm" /\ Confirmed # {}) =>
                  ~last.effects[i].flag

\* The files of call b that were confirmed, in array order.
ConfirmedOf(b) == SelectSeq(b.files, LAMBDA f : hist[f].outcome = "success")

\* C3: when an admitted selection has finished, and nothing else wrote the
\* list meanwhile, the modal's list is the list from before the selection
\* followed by one image per confirmed file, and every other file of the
\* selection has been reported through the error callback.
C3_BatchAppendsConfirmed ==
    \A bi \in DOMAIN batches :
        LET b == batches[bi]
        IN  (parent.kind = "modal" /\ ~b.retry /\ b.pc = "done" /\ b.quiet) =>
              /\ Len(modal.images) = Len(b.before) + Len(ConfirmedOf(b))
              /\ SubSeq(modal.images, 1, Len(b.before)) = b.before
              /\ \A k \in DOMAIN b.files :
                    hist[b.files[k]].outcome # "success" => hist[b.files[k]].errors > 0

Failed(f) == hist[f].outcome \in {"rejected", "error"}

\* C9: in a finished selection every file was attempted, a file that failed
\* validation was never an UploadTask, and a file that comes after a failed
\* file and whose three steps succeeded was shown as an UploadTask in status
\* success.
C9_SiblingsReachSuccess ==
    \A bi \in DOMAIN batches :
        LET b == batches[bi]
        IN  (~b.retry /\ b.pc = "done") =>
              \A k \in DOMAIN b.files :
                LET h == hist[b.files[k]]
                IN  /\ h.attempts > 0
                    /\ h.outcome = "rejected" => h.seen = {}
                    /\ (h.outcome = "success" /\ \E j \in 1..(k - 1) : Failed(b.files[j]))
                          => "success" \in h.seen

\* In the modal a file that comes after a failed file of its selection is
\* never rendered as an UploadTask.
AfterFailureUnseen ==
    \A bi \in DOMAIN batches :
        LET b == batches[bi]
        IN  ~b.retry =>
              \A k \in 1..b.i :
                (\E j \in 1..(k - 1) : Failed(b.files[j])) => hist[b.files[k]].seen = {}

Is2xx(status) == status \in 200..299

\* C10: in every file's log, in both variants, the transfer is sent directly
\* after a negotiate response that apiRequest resolved (2xx and JSON), and the
\* confirm directly after the transfer's load event with a 2xx status; each of
\* the three requests is the first, third and fifth entry of the log.
C10_StepsInOrder ==
    \A f \in DOMAIN hist :
        LET log == hist[f].log
        IN  \A i \in DOMAIN log :
              /\ log[i].ev = "negotiate" => i = 1
              /\ log[i].ev = "transfer" =>
                    /\ i = 3
                    /\ log[1].ev = "negotiate"
                    /\ log[2].ev \in {"negotiate:response", "negotiate:response without url"}
                    /\ Is2xx(log[2].status) /\ log[2].json
              /\ log[i].ev = "confirm" =>
                    /\ i = 5
                    /\ log[3].ev = "transfer"
                    /\ log[4].ev = "load"
                    /\ Is2xx(log[4].status)

\* A file of an S3 session has gone through the three steps.
C10_Witness ==
    \E f \in DOMAIN hist :
        /\ Len(hist[f].log) = 6
        /\ hist[f].log[5].ev = "confirm"
        /\ hist[f].log[6].ev = "confirm:response"
        /\ hist[f].outcome = "success"
        /\ isProduction

SameButMain(a, b) ==
    a.id = b.id /\ a.display_order = b.display_order /\ a.image_url = b.image_url

\* C4: when handleSetPrimary(target) has succeeded on a list that holds the
\* target, the list it publishes has exactly one image with is_main = true,
\* the target, and is otherwise the list it worked on: same length, same
\* order, same ids and other fields.
C4_ExactlyOnePrimary ==
    (/\ last.op = "promote"
     /\ last.ok
     /\ \E i \in DOMAIN last.snap : last.snap[i].id = last.id) =>
        /\ Len(modal.images) = Len(last.snap)
        /\ \A i \in DOMAIN last.snap : SameButMain(modal.images[i], last.snap[i])
        /\ Cardinality({i \in DOMAIN modal.images : modal.images[i].is_main}) = 1
        /\ \A i \in DOMAIN modal.images :
              modal.images[i].is_main <=> modal.images[i].id = last.id
        /\ productImages = modal.images

\* The primary flag moved from another image of a list of three to the target.
C4_Witness ==
    /\ last.op = "promote"
    /\ last.ok
    /\ Len(last.snap) = 3
    /\ \E i \in DOMAIN last.snap : last.snap[i].is_main /\ last.snap[i].id # last.id
    /\ \E i \in DOMAIN modal.images : modal.images[i].is_main /\ modal.images[i].id = last.id

\* The 4-item example: item 0 moved to index 2.
FourItems == InitialImages(4, 1)

\* C5: when handleSaveReorder has succeeded for draft D, the list it publishes
\* has the images of D in D's order, the image at position i has
\* display_order = i, nothing else of an image is changed, and the gallery
\* instance it belongs to is out of reorder mode; [a,b,c,d] with item 0 moved
\* to index 2 is published as [b,c,a,d] with display_order 1,2,3,4.
C5_ReorderCommit ==
    /\ (last.op = "reorder" /\ last.ok) =>
          /\ Ids(modal.images) = Ids(last.snap)
          /\ \A i \in DOMAIN modal.images :
                /\ modal.images[i].display_order = i
                /\ modal.images[i].is_main = last.snap[i].is_main
                /\ modal.images[i].image_url = last.snap[i].image_url
          /\ productImages = modal.images
          /\ last.live => ~gallery.isReordering
    /\ Ids(RenumberImages(SpliceMove(FourItems, 0, 2))) = <<2, 3, 1, 4>>
    /\ \A i \in 1..4 : RenumberImages(SpliceMove(FourItems, 0, 2))[i].display_order = i

\* A draft [b,c,a] made of [a,b,c] has been committed.
C5_Witness ==
    /\ last.op = "reorder"
    /\ last.ok
    /\ last.live
    /\ Ids(last.snap) = <<2, 3, 1>>
    /\ Ids(modal.images) = <<2, 3, 1>>
    /\ ~gallery.isReordering

\* C6: entering reorder mode, a move and cancelling each leave the modal's
\* list, the owner's copy and the backend as they are, send no request and
\* invoke no callback; cancelling discards the draft and puts the gallery
\* back in normal mode.
C6_CancelIsFrame ==
    [][ (handleStartReorder \/ handleCancelReorder
            \/ \E f, t \in 0..(MaxGalleryImages - 1) : moveImage(f, t)) =>
          /\ modal'.images = modal.images
          /\ productImages' = productImages
          /\ server' = server
          /\ requests' = requests
          /\ ops' = ops
          /\ last'.effects = <<>>
          /\ handleCancelReorder =>
                /\ ~gallery'.isReordering
                /\ gallery'.reorderImages = <<>> ]_vars

\* A draft that differed from the list has been cancelled.
C6_Witness ==
    /\ last.op = "handleCancelReorder"
    /\ Len(last.snap) = 3
    /\ Ids(last.snap) # Ids(modal.images)
    /\ ~gallery.isReordering
    /\ modal.images = InitialImages(3, 1)

\* C7: when handleDelete(id) has succeeded on a list that holds id, the list it
\* publishes is the list it worked on without the one entry of that id: every
\* other entry is there, unmodified, in the same relative order.
C7_DeleteExactlyOne ==
    (/\ last.op = "delete"
     /\ last.ok
     /\ \E k \in DOMAIN last.snap : last.snap[k].id = last.id) =>
        /\ Len(modal.images) = Len(last.snap) - 1
        /\ \E k \in DOMAIN last.snap :
              /\ last.snap[k].id = last.id
              /\ \A j \in DOMAIN modal.images :
                    modal.images[j] = IF j < k THEN last.snap[j] ELSE last.snap[j + 1]
        /\ productImages = modal.images

\* The middle image of three has been deleted.
C7_Witness ==
    /\ last.op = "delete"
    /\ last.ok
    /\ Len(last.snap) = 3
    /\ last.snap[2].id = last.id
    /\ Ids(modal.images) = <<last.snap[1].id, last.snap[3].id>>

TasksOf(f) == {i \in DOMAIN upload.uploads : upload.uploads[i].file = f}

\* C8: the upload list never holds two tasks of the same File, whatever was
\* retried, dismissed or removed by its timer; right after retryUpload(f) the
\* list holds one task of f, a new one in status uploading; and when the retry
\* is over, and no later retry of f is running, the task of f, unless removed,
\* is in the one terminal status the retry ended with.
C8_OneTaskPerFile ==
    /\ \A f \in DOMAIN files : Cardinality(TasksOf(f)) <= 1
    /\ last.op = "retryUpload" =>
          /\ Cardinality(TasksOf(last.id)) = 1
          /\ \A i \in TasksOf(last.id) :
                upload.uploads[i] = UploadProgress(last.id)
    /\ \A bi \in DOMAIN batches :
          (/\ batches[bi].retry
           /\ \A bj \in DOMAIN batches :
                 batches[bj].files[1] = batches[bi].files[1] => batches[bj].pc = "done") =>
            LET f == batches[bi].files[1]
            IN  /\ hist[f].outcome \in {"success", "error"}
                /\ \A i \in TasksOf(f) : upload.uploads[i].status = hist[f].outcome

\* A file that failed has been retried and its one task shows success.
C8_Witness ==
    \E bi \in DOMAIN batches :
        /\ batches[bi].retry
        /\ batches[bi].pc = "done"
        /\ LET f == batches[bi].files[1]
           IN  /\ hist[f].attempts = 2
               /\ hist[f].errors = 1
               /\ Cardinality(TasksOf(f)) = 1
               /\ \A i \in TasksOf(f) : upload.uploads[i].status = "success"

\* An attempt to upload file f has come to its end: success, error or rejection.
Ended(h, f) == h[f].errors + h[f].completes > 0

\* The handleFiles call and the position of file f in it.
PlaceOf(bs, f) ==
    {p \in (DOMAIN bs) \X (1..MaxBatch) :
        /\ ~bs[p[1]].retry
        /\ p[2] \in DOMAIN bs[p[1]].files
        /\ bs[p[1]].files[p[2]] = f}

\* C11: a handleFiles call takes its files in array order, one at a time.  A
\* step in which the call sends the negotiate request of its file at position
\* k > 1 starts from a state in which the call was in its delay after the file
\* at position k - 1, whose attempt had ended; and in every state the files
\* before the current one have ended an attempt while the files after it
\* have not been attempted.
C11_SequentialFiles ==
    [][ /\ \A f \in DOMAIN files' :
            \A p \in PlaceOf(batches', f) :
              (/\ last'.op \in {"handleFiles", "delayElapsed"}
               /\ \E e \in DOMAIN last'.effects :
                     last'.effects[e].kind = "negotiate" /\ last'.effects[e].id = f
               /\ p[2] > 1) =>
                 /\ p[1] \in DOMAIN batches
                 /\ batches[p[1]].pc = "delay"
                 /\ batches[p[1]].i = p[2] - 1
                 /\ Ended(hist, batches[p[1]].files[p[2] - 1])
        /\ \A bi \in DOMAIN batches' :
            ~batches'[bi].retry =>
              \A k \in DOMAIN batches'[bi].files :
                /\ k < batches'[bi].i => Ended(hist', batches'[bi].files[k])
                /\ k > batches'[bi].i =>
                      /\ hist'[batches'[bi].files[k]].attempts = 0
                      /\ hist'[batches'[bi].files[k]].log = <<>> ]_vars

\* The third file of a selection is at its negotiate request after the first
\* was confirmed and the second failed.
C11_Witness ==
    \E bi \in DOMAIN batches :
        /\ ~batches[bi].retry
        /\ Len(batches[bi].files) = 3
        /\ batches[bi].i = 3
        /\ batches[bi].pc = "negotiate"
        /\ hist[batches[bi].files[1]].outcome = "success"
        /\ hist[batches[bi].files[2]].outcome = "error"
        /\ hist[batches[bi].files[3]].log = <<Sent("negotiate")>>

\* The files handed to the component by the step, if it is a call of handleFiles.
Selected == (Len(files) + 1)..Len(files')

\* C12: a call of handleFiles with n files, made while the queue holds q tasks
\* and the product has c images, with q + n + c > maxFiles invokes the error
\* callback once and does nothing else: no task, no request, no file handed
\* to uploadFile.  Otherwise it starts one loop over the n files in their
\* order, which does not drop a file later: a finished loop has attempted
\* every file of its selection.
C12_WholeBatchAdmission ==
    [][ /\ Selected # {} =>
            IF Len(upload.uploads) + Cardinality(Selected) + CurrentImageCount
                  > parent.maxFiles
            THEN /\ Len(last'.effects) = 1
                 /\ last'.effects[1].kind = "onUploadError"
                 /\ last'.effects[1].msg = "Cannot upload more than maxFiles images per product"
                 /\ upload'.uploads = upload.uploads
                 /\ batches' = batches
                 /\ \A f \in Selected : hist'[f] = HistInit
            ELSE /\ Len(batches') = Len(batches) + 1
                 /\ SubSeq(batches', 1, Len(batches)) = batches
                 /\ batches'[Len(batches')].files =
                        [k \in 1..Cardinality(Selected) |-> Len(files) + k]
                 /\ ~batches'[Len(batches')].retry
                 /\ hist'[Len(files) + 1].attempts = 1
                 /\ \A e \in DOMAIN last'.effects :
                       last'.effects[e].msg # "Cannot upload more than maxFiles images per product"
        /\ \A bi \in DOMAIN batches :
              /\ batches'[bi].files = batches[bi].files
              /\ (~batches'[bi].retry /\ batches'[bi].pc = "done") =>
                    \A k \in DOMAIN batches'[bi].files :
                        hist'[batches'[bi].files[k]].attempts > 0 ]_vars

\* A selection of one file was refused because a task was in the queue, and a
\* selection of one file is refused as a whole only if it is over the limit.
C12_Witness ==
    /\ last.op = "handleFiles"
    /\ ~last.ok
    /\ Len(files) = 2
    /\ Len(upload.uploads) = 1
    /\ parent.currentImageCount = 1
    /\ parent.maxFiles = 2
    /\ hist[2] = HistInit

\* C13: the children of ProtectedRoute are on the screen only while the auth
\* state holds a user whose role is admin and isLoading is false; the auth
\* state never holds a user of another role, whatever the profile request
\* answered and whatever message the window received.
C13_AdminOnly ==
    /\ auth.user.present => auth.user.role = "admin"
    /\ AppRoutes(auth) = "children" =>
          /\ auth.user.present
          /\ auth.user.role = "admin"
          /\ ~auth.isLoading
    /\ (last.op \in {"checkAuthentication", "popupMessage"} /\ last.ok) =>
          auth.user = [present |-> TRUE, role |-> "admin"]

\* An admin has signed in through the popup after the profile check had found
\* no session, and the dashboard is shown.
C13_Witness ==
    /\ last.op = "popupMessage"
    /\ last.ok
    /\ ~auth.checking
    /\ auth.user.role = "admin"
    /\ AppRoutes(auth) = "children"
    /\ auth.calls > 0

\* An entry of a file's log that is a failure of its step.
StepFailure(e) ==
    \/ e.ev \in {"error", "timeout"}
    \/ e.ev = "load" /\ ~Is2xx(e.status)
    \/ e.ev \in {"negotiate:response", "negotiate:response without url",
                 "confirm:response"} /\ ~(Is2xx(e.status) /\ e.json)
    \/ e.ev = "negotiate:response without url" /\ isProduction

C15_FailedMutationIsFrame ==
    [][ (last'.op \in {"promote", "delete"} /\ ~last'.ok) =>
          /\ modal'.images = modal.images
          /\ productImages' = productImages
          /\ Len(last'.effects) = 1
          /\ last'.effects[1].kind = "onError"
          /\ last'.effects[1].msg = IF last'.op = "promote"
                                    THEN "Failed to set primary image"
                                    ELSE "Failed to delete image"
          /\ modal'.error = last'.effects[1].msg
          /\ requests' = 1 => modal'.images = last'.snap ]_vars

\* The delete of the primary image of three has failed and the three are
\* still there, the first one primary.
C15_Witness ==
    /\ last.op = "delete"
    /\ ~last.ok
    /\ last.id = 1
    /\ modal.images = InitialImages(3, 1)
    /\ productImages = InitialImages(3, 1)
    /\ modal.error = "Failed to delete image"

\* C16: after a reorder commit of a rendered gallery has failed, the gallery
\* is rendered in reorder mode with the draft that was sent, the modal's list
\* and the owner's copy are the same list as before, the modal holds the
\* error, and the draft can be committed again or cancelled.
C16_DraftSurvivesFailure ==
    (last.op = "reorder" /\ ~last.ok /\ last.live) =>
        /\ modal.error = "Failed to reorder images"
        /\ productImages = modal.images
        /\ GalleryShown(modal)
        /\ gallery.isReordering
        /\ gallery.reorderImages = last.snap

\* C17: no completion undoes the other's effect.  When a promote, a delete or
\* a reorder commit of the product's original images has succeeded, the list
\* holds the image of every upload confirmed before; and when an upload is
\* confirmed after the list was rewritten during the upload, the list in
\* front of the new image is not the list from before the upload.
C17_NeitherEffectLost ==
    /\ (last.op \in {"promote", "delete", "reorder"} /\ last.ok
            /\ last.id <= parent.opened /\ Confirmed # {}) =>
          \E i \in DOMAIN modal.images : modal.images[i].id > parent.opened
    /\ (last.op = "confirmReturn" /\ last.ok /\ loads = 0 /\ parent.kind = "modal") =>
          \A bi \in DOMAIN batches :
             (batches[bi].files[batches[bi].i] = last.id /\ ~batches[bi].quiet) =>
                /\ Len(modal.images) > 0
                /\ SubSeq(modal.images, 1, Len(modal.images) - 1) # batches[bi].before

Count(s, x) == Cardinality({i \in DOMAIN s : s[i] = x})

IsPermutation(a, b) ==
    /\ Len(a) = Len(b)
    /\ \A x \in Range(a) \cup Range(b) : Count(a, x) = Count(b, x)

\* C18: a step moveImage(from, to) of a gallery in reorder mode gives a draft
\* that holds the dragged image at index `to` and, around it, the other
\* images in the order they had; it sends no request, invokes no callback
\* and leaves the modal's list, the owner's copy and the backend alone.  The
\* draft is the modal's list when reorder mode is entered, and as long as
\* the gallery stays in reorder mode every step leaves it a permutation of
\* what it was.
C18_MoveIsLocalPermutation ==
    [][ /\ \A from, to \in 0..(MaxGalleryImages - 1) :
              moveImage(from, to) =>
                /\ gallery'.isReordering
                /\ Len(gallery'.reorderImages) = Len(gallery.reorderImages)
                /\ gallery'.reorderImages[to + 1] = gallery.reorderImages[from + 1]
                /\ Without(gallery'.reorderImages, to + 1)
                      = Without(gallery.reorderImages, from + 1)
                /\ modal'.images = modal.images
                /\ productImages' = productImages
                /\ server' = server
                /\ requests' = requests
                /\ ops' = ops
                /\ last'.effects = <<>>
        /\ handleStartReorder => gallery'.reorderImages = modal.images
        /\ (gallery.isReordering /\ gallery'.isReordering) =>
              IsPermutation(gallery'.reorderImages, gallery.reorderImages) ]_vars

\* After two moves the draft of [1,2,3] is [3,2,1]; nothing was sent and the
\* modal's list is as it was.
C18_Witness ==
    /\ gallery.isReordering
    /\ Ids(gallery.reorderImages) = <<3, 2, 1>>
    /\ Ids(modal.images) = <<1, 2, 3>>
    /\ requests = 0
    /\ ops = <<>>
    /\ server.images = modal.images

\* C19: the gallery is in normal mode or in reorder mode.  In reorder mode
\* the tiles rendered and indexed are the draft's, in normal mode the modal
\* list's.  A promote request is sent, the delete dialog is opened and the
\* preview is opened only from normal mode; a move is applied only in reorder
\* mode, with indexes of the draft, and a gallery that is and stays in normal
\* mode keeps its draft untouched.
C19_ExclusiveModes ==
    [][ /\ gallery'.isReordering \in BOOLEAN
        /\ displayImages(gallery', modal'.images) =
              IF gallery'.isReordering THEN gallery'.reorderImages ELSE modal'.images
        /\ last'.op = "handleSetPrimary" => ~gallery.isReordering
        /\ gallery'.deleteConfirm \notin {NoImage, gallery.deleteConfirm} =>
              ~gallery.isReordering
        /\ gallery'.selectedImage \notin {NoImage, gallery.selectedImage} =>
              ~gallery.isReordering
        /\ \A from, to \in 0..(MaxGalleryImages - 1) :
              moveImage(from, to) =>
                /\ gallery.isReordering
                /\ from + 1 \in DOMAIN gallery.reorderImages
                /\ to + 1 \in DOMAIN gallery.reorderImages
        /\ (~gallery.isReordering /\ ~gallery'.isReordering) =>
              gallery'.reorderImages \in {gallery.reorderImages, <<>>} ]_vars

\* In reorder mode with a draft that differs from the modal's list, the
\* tiles are the draft's; no dialog and no preview is open.
C19_Witness ==
    /\ gallery.isReordering
    /\ Ids(gallery.reorderImages) = <<2, 1, 3>>
    /\ Ids(modal.images) = <<1, 2, 3>>
    /\ displayImages(gallery, modal.images) = gallery.reorderImages
    /\ gallery.deleteConfirm = NoImage
    /\ gallery.selectedImage = NoImage

\* C20: no two delete requests for the same image are in flight together,
\* and a delete request is sent only for an image that the deleting flag does
\* not mark.
C20_OneDeleteInFlight ==
    /\ \A i, j \in DOMAIN ops :
          (ops[i].kind = "delete" /\ ops[j].kind = "delete" /\ ops[i].id = ops[j].id)
              => i = j
    /\ last.op = "handleDelete" =>
          Cardinality({i \in DOMAIN ops : ops[i].kind = "delete" /\ ops[i].id = last.id}) = 1

\* C21: after a delete has succeeded, the list holds no image whose delete
\* has succeeded; and when the two requests of a session were deletes of two
\* images, both successful, the list is the original one without the two, the
\* others in their original order.
C21_DeletedStayDeleted ==
    (last.op = "delete" /\ last.ok) =>
        /\ \A i \in DOMAIN modal.images : modal.images[i].id \notin deleted
        /\ (Cardinality(deleted) = 2 /\ requests = 2 /\ loads = 0) =>
              Ids(modal.images) =
                 SelectSeq([i \in 1..parent.opened |-> i], LAMBDA id : id \notin deleted)

\* The task of file f, if the list holds one.
TaskStatus(u, f) ==
    IF HasTask(u, f) THEN (CHOOSE x \in Range(u) : x.file = f).status ELSE "none"

\* C22: a task in status success has had its success callback invoked; it is
\* eventually removed from the list with no user action needed; and a task
\* in status error leaves the list only by the X button or by a retry.
C22_SuccessDismissedErrorKept ==
    /\ [](\A f \in DOMAIN hist :
            TaskStatus(upload.uploads, f) = "success" => hist[f].completes > 0)
    /\ \A f \in 1..MaxFileObjs :
          (f \in DOMAIN hist /\ TaskStatus(upload.uploads, f) = "success")
             ~> ~HasTask(upload.uploads, f)
    /\ [][\A f \in DOMAIN hist :
            (TaskStatus(upload.uploads, f) = "error"
               /\ TaskStatus(upload.uploads', f) # "error")
            => (last'.op \in {"removeUpload", "retryUpload"} /\ last'.id = f)]_vars

\* The timer of a successful task has fired and has removed it, the X button
\* never used on it.
C22_Witness ==
    /\ last.op = "dismissTimer"
    /\ last.ok
    /\ hist[last.id].completes > 0
    /\ hist[last.id].removed = 0
    /\ ~HasTask(upload.uploads, last.id)

\* C23: the progress of every task, of either variant, is an integer from 0
\* to 100, and a task in status success has progress 100.
C23_ProgressInRange ==
    /\ \A x \in Range(upload.uploads) :
          /\ x.progress \in 0..100
          /\ x.status = "success" => x.progress = 100
    /\ \A x \in Range(basic.uploads) :
          /\ x.progress.finite
          /\ x.progress.n \in 0..100
          /\ x.status = "success" => x.progress = Num(100)

\* C24: a negotiate response that resolves without the destination URL and
\* the image key ends the file's attempt: it is the last entry of the
\* attempt's log (no transfer and no confirm request follows it), the attempt
\* is in error and the error callback has been invoked.
C24_MissingUrlAborts ==
    \A f \in DOMAIN hist :
        \A i \in DOMAIN hist[f].log :
            LET e == hist[f].log[i]
            IN  (e.ev = "negotiate:response without url" /\ Is2xx(e.status) /\ e.json) =>
                    /\ i = Len(hist[f].log)
                    /\ hist[f].outcome = "error"
                    /\ hist[f].errors > 0

\* The last entry of the log of file f's latest attempt.
LastEntry(h, f) ==
    IF h[f].log = <<>> THEN Sent("none") ELSE h[f].log[Len(h[f].log)]

\* C25: in the direct-to-storage variant every task in status uploading
\* leaves that status and its attempt ends in success or error; a transfer
\* that times out ends the attempt in error with the timeout message, no
\* confirm request sent; and every handleFiles call finishes its batch.
C25_UploadsTerminate ==
    /\ \A f \in 1..MaxFileObjs :
          (isProduction /\ TaskStatus(upload.uploads, f) = "uploading")
             ~> (/\ TaskStatus(upload.uploads, f) # "uploading"
                 /\ f \in DOMAIN hist
                 /\ hist[f].outcome \in {"success", "error"})
    /\ \A bi \in 1..(MaxBatches + MaxRetries) :
          (isProduction /\ bi \in DOMAIN batches /\ batches[bi].pc # "done")
             ~> (bi \in DOMAIN batches /\ batches[bi].pc = "done")
    /\ [][(isProduction /\ last'.op = "transferEnd"
             /\ LastEntry(hist', last'.id).ev = "timeout")
          => /\ hist'[last'.id].outcome = "error"
             /\ hist'[last'.id].errors = hist[last'.id].errors + 1
             /\ last'.effects = <<Effect("onUploadError", last'.id, FALSE,
                                         "S3 upload failed - timeout")>>
             /\ TaskStatus(upload.uploads, last'.id) = "uploading"
                   => (CHOOSE x \in Range(upload.uploads') : x.file = last'.id).error
                          = "S3 upload failed - timeout"]_vars

\* A transfer to storage has timed out and the file after it has been
\* uploaded, which ended the batch.
C25_Witness ==
    /\ isProduction
    /\ \E bi \in DOMAIN batches :
          /\ batches[bi].pc = "done"
          /\ Len(batches[bi].files) = 2
          /\ LastEntry(hist, batches[bi].files[1]).ev = "timeout"
          /\ hist[batches[bi].files[2]].outcome = "success"

\* C26: a promote, delete or reorder request answered with a 2xx status is
\* handled as a success, one answered with another status as a failure.
C26_OkResponseIsSuccess ==
    last.op \in {"promote", "delete", "reorder"} =>
        (last.ok <=> Is2xx(last.resp.status))

\* The number of images of a list with is_main = true.
Mains(imgs) == Cardinality({i \in DOMAIN imgs : imgs[i].is_main})

\* C27: the list the modal opens with has at most one main image, and every
\* step keeps it so (an upload, a promote, a delete, a reorder commit, each
\* with the list its handler captured), except a load that delivers a list
\* with two main images.
C27_AtMostOneMain ==
    /\ Mains(modal.images) <= 1
    /\ [][(/\ Mains(modal.images) <= 1
           /\ ~(last'.op = "loadImagesReturn" /\ Mains(server.images) > 1))
          => Mains(modal.images') <= 1]_vars

\* An upload has been confirmed into a list that still has its main image.
C27_Witness ==
    /\ last.op = "confirmReturn"
    /\ last.ok
    /\ Len(modal.images) = MaxConcurrentImages + 1
    /\ Mains(modal.images) = 1
    /\ ~modal.images[Len(modal.images)].is_main

\* C28: the list of the product's images never holds more than maxFiles
\* images.
C28_WithinMaxFiles == Len(modal.images) <= parent.maxFiles

\* The status changes the claim allows.
AllowedChanges ==
    { <<"pending", "paid">>, <<"pending", "cancelled">>,
      <<"paid", "delivered">>, <<"paid", "cancelled">> }

\* C29: on the orders list and on the order detail page the status shown
\* for an order changes only along an allowed change.
C29_StatusOnlyAdvances ==
    [][/\ \A o \in 1..MaxOrders :
            orderPages.list.orders'[o] # orderPages.list.orders[o] =>
               <<orderPages.list.orders[o], orderPages.list.orders'[o]>> \in AllowedChanges
       /\ orderPages.detail.order'.status # orderPages.detail.order.status =>
            <<orderPages.detail.order.status, orderPages.detail.order'.status>>
               \in AllowedChanges]_vars

\* The files of the first variant whose protocol is in flight.
InFlight == {f \in DOMAIN basic.calls :
                basic.calls[f].pc \in {"negotiate", "transfer", "confirm"}}

\* C30: the first variant admits of every selection what the admission check
\* of the environment-aware variant admits with the same queue, image count
\* and maxFiles, all files or none, and has the protocol of at most one file
\* in flight at a time.
C30_SameQueueController ==
    /\ \A i \in DOMAIN basic.batches :
          LET b == basic.batches[i]
          IN  b.filesToUpload =
                IF b.queued + Len(b.files) + parent.currentImageCount > parent.maxFiles
                THEN <<>> ELSE b.files
    /\ Cardinality(InFlight) <= 1

====
